---------------------------- MODULE Spec2Model ----------------------------
(***************************************************************************)
(* State-machine model of afwijkingen-lab (src/src/App.jsx).  The source   *)
(* file holds two revisions of the application: the earlier one (lines     *)
(* 1-884) and the later one (lines 886-2483).  The variable rev says which *)
(* of the two is running; it never changes.                                *)
(*                                                                         *)
(* Conventions                                                             *)
(*   - a text is a sequence of one-character strings, so that trim,        *)
(*     toLowerCase and localeCompare are computed, not assumed;            *)
(*   - a JavaScript value (a cell of a sheet, a field of a record) is a    *)
(*     tagged record [t, s, n]: t = "s" text s, t = "n" number n,          *)
(*     t = "d" Date at time n, t = "u" undefined;                          *)
(*   - time is counted in hours since the spreadsheet epoch (serial 0);    *)
(*   - array positions are 1-based, and NotFound (0) stands for the -1     *)
(*     that Array.prototype.findIndex returns.                             *)
(***************************************************************************)
EXTENDS Integers, Sequences, FiniteSets, TLC

VARIABLES
    rev,               \* "earlier" | "later": which revision of App runs
    overzichtFile,     \* useState: the selected overview file
    databaseFile,      \* useState: the selected database file
    dashboardFile,     \* useState: the selected dashboard file
    station,           \* useState: the station label, a text
    emailDraft,        \* useState: the email draft, or Null
    lastEmailStation,  \* useState (later revision): the label of the last draft
    activePanel,       \* useState: "results" | "email" | "log" | "powerbi" | "none"
    busyAction,        \* useState: "" | "data" | "powerbi"
    logEntries,        \* useState: the log, oldest entry first
    achterstalligRows, \* useState: the published Deviation Records
    conceptRows,       \* useState: the published Concept Records
    actiehouders,      \* useState: the published Action Holder Set
    powerBiReady,      \* useState: the ready flag
    powerBiStats,      \* useState (later revision): the published statistics
    runs,              \* the async runs in flight, each suspended at an await
    downloads,         \* the files handed to the browser for download, oldest first
    events,            \* number of user events that are still to come
    passes,            \* history: the statistics passes that published, each with
                       \* its grid, what was published before it and what it published
    audit              \* history: what the last step's operation did

published == <<achterstalligRows, conceptRows, actiehouders>>
vars == <<rev, dashboardFile, overzichtFile, databaseFile, station, emailDraft,
          lastEmailStation, activePanel, busyAction, logEntries,
          achterstalligRows, conceptRows, actiehouders, powerBiReady, powerBiStats,
          runs, downloads, events, passes, audit>>

---------------------------------------------------------------------------
(* Texts                                                                   *)

UpperChars == <<"A", "B", "C", "D", "E", "F", "G", "H", "I", "J", "K", "L", "M",
                "N", "O", "P", "Q", "R", "S", "T", "U", "V", "W", "X", "Y", "Z">>
LowerChars == <<"a", "b", "c", "d", "e", "f", "g", "h", "i", "j", "k", "l", "m",
                "n", "o", "p", "q", "r", "s", "t", "u", "v", "w", "x", "y", "z">>
DigitChars == <<"0", "1", "2", "3", "4", "5", "6", "7", "8", "9">>

UpperSet == {UpperChars[i] : i \in DOMAIN UpperChars}
LowerOfUpper ==
    [c \in UpperSet |-> LowerChars[CHOOSE i \in DOMAIN UpperChars : UpperChars[i] = c]]

IsUpperChar(c) == c \in UpperSet

\* String.prototype.toLowerCase, one character
ToLowerChar(c) == IF IsUpperChar(c) THEN LowerOfUpper[c] ELSE c

toLowerCase(s) == [i \in 1..Len(s) |-> ToLowerChar(s[i])]

IsSpace(c) == c = " "

RECURSIVE TrimStart(_)
TrimStart(s) ==
    IF s # <<>> /\ IsSpace(Head(s)) THEN TrimStart(Tail(s)) ELSE s

RECURSIVE TrimEnd(_)
TrimEnd(s) ==
    IF s # <<>> /\ IsSpace(s[Len(s)]) THEN TrimEnd(SubSeq(s, 1, Len(s) - 1)) ELSE s

\* String.prototype.trim
trim(s) == TrimEnd(TrimStart(s))

\* Number.prototype.toString for an integer
RECURSIVE NatToText(_)
NatToText(n) ==
    IF n < 10 THEN <<DigitChars[n + 1]>>
    ELSE NatToText(n \div 10) \o <<DigitChars[(n % 10) + 1]>>

IntToText(n) == IF n < 0 THEN <<"-">> \o NatToText(0 - n) ELSE NatToText(n)

\* The collation order of String.prototype.localeCompare on the characters the
\* model uses: white space, punctuation, digits, letters; the two cases of a
\* letter differ only at the last level, lower case first.
CollationOrder ==
    <<" ", "-", "(", ")">> \o DigitChars \o LowerChars

CollationSet == {CollationOrder[i] : i \in DOMAIN CollationOrder}
RankOf ==
    [c \in CollationSet |-> CHOOSE i \in DOMAIN CollationOrder : CollationOrder[i] = c]

CollationRank(c) ==
    LET l == ToLowerChar(c)
    IN  IF l \in CollationSet THEN RankOf[l] ELSE Len(CollationOrder) + 1

\* -1, 0 or 1: the order of two sequences of integers, a prefix first
RECURSIVE SeqCompare(_, _)
SeqCompare(a, b) ==
    IF a = <<>> /\ b = <<>> THEN 0
    ELSE IF a = <<>> THEN 0 - 1
    ELSE IF b = <<>> THEN 1
    ELSE IF Head(a) < Head(b) THEN 0 - 1
    ELSE IF Head(a) > Head(b) THEN 1
    ELSE SeqCompare(Tail(a), Tail(b))

\* a.localeCompare(b): -1, 0 or 1
localeCompare(a, b) ==
    LET pa == [i \in 1..Len(a) |-> CollationRank(a[i])]
        pb == [i \in 1..Len(b) |-> CollationRank(b[i])]
        ca == [i \in 1..Len(a) |-> IF IsUpperChar(a[i]) THEN 1 ELSE 0]
        cb == [i \in 1..Len(b) |-> IF IsUpperChar(b[i]) THEN 1 ELSE 0]
        primary == SeqCompare(pa, pb)
    IN  IF primary # 0 THEN primary ELSE SeqCompare(ca, cb)

---------------------------------------------------------------------------
(* JavaScript values                                                       *)

Str(text) == [t |-> "s", s |-> text, n |-> 0]
Num(k)    == [t |-> "n", s |-> <<>>, n |-> k]
DateAt(h) == [t |-> "d", s |-> <<>>, n |-> h]
Undefined == [t |-> "u", s |-> <<>>, n |-> 0]
Blank     == Str(<<>>)

\* row[index]: undefined outside the array, and for the index -1
At(row, index) == IF index \in 1..Len(row) THEN row[index] ELSE Undefined

\* String(value ?? '')
StringOf(value) ==
    CASE value.t = "s" -> value.s
      [] value.t = "n" -> IntToText(value.n)
      [] value.t = "d" -> <<"D", "a", "t", "e", " ">> \o IntToText(value.n)
      [] OTHER         -> <<>>

\* the truthiness of a value
Truthy(value) ==
    CASE value.t = "s" -> value.s # <<>>
      [] value.t = "n" -> value.n # 0
      [] value.t = "d" -> TRUE
      [] OTHER         -> FALSE

normalize(value) == toLowerCase(trim(StringOf(value)))

NotFound == 0

\* the keys a header row is searched by: normalize(header) of each header
HeaderKeys(headers) == [i \in DOMAIN headers |-> normalize(Str(headers[i]))]

\* FindKey returning the last position whose key is wanted
FindKey_Last(keys, wanted) ==
    IF \A i \in DOMAIN keys : keys[i] # wanted THEN NotFound
    ELSE CHOOSE i \in DOMAIN keys :
            keys[i] = wanted /\ \A j \in (i + 1)..Len(keys) : keys[j] # wanted

\* findIndex((header) => normalize(header) === wanted): the first position whose
\* key is wanted, wanted being normalize(name)
FindKey(keys, wanted) ==
    IF \A i \in DOMAIN keys : keys[i] # wanted THEN NotFound
    ELSE CHOOSE i \in DOMAIN keys :
            keys[i] = wanted /\ \A j \in 1..(i - 1) : keys[j] # wanted

\* headers.findIndex((header) => normalize(header) === normalize(name))
getColumnIndex(headers, name) == FindKey(HeaderKeys(headers), normalize(Str(name)))

---------------------------------------------------------------------------
(* Column labels and cell texts the code names                             *)

L_Code == <<"C", "o", "d", "e">>
L_Titel == <<"T", "i", "t", "e", "l">>
L_Code2 == <<"C", "o", "d", "e", " ", "(", "2", ")">>
L_Maatregel == <<"M", "a", "a", "t", "r", "e", "g", "e", "l">>
L_Status2 == <<"S", "t", "a", "t", "u", "s", " ", "(", "2", ")">>
L_Status == <<"S", "t", "a", "t", "u", "s">>
L_Actiehouder == <<"A", "c", "t", "i", "e", "h", "o", "u", "d", "e", "r">>
L_Opsteller == <<"O", "p", "s", "t", "e", "l", "l", "e", "r">>
L_GeplandeDatumKlaar ==
    <<"G", "e", "p", "l", "a", "n", "d", "e", " ", "d", "a", "t", "u", "m", " ",
      "k", "l", "a", "a", "r">>
L_MaatregelenBeoordeling ==
    <<"M", "a", "a", "t", "r", "e", "g", "e", "l", "e", "n", " ", "b", "e", "o",
      "o", "r", "d", "e", "l", "i", "n", "g">>
L_DatumKlaar == <<"D", "a", "t", "u", "m", " ", "k", "l", "a", "a", "r">>
L_VeroorzakendeDiscipline ==
    <<"V", "e", "r", "o", "o", "r", "z", "a", "k", "e", "n", "d", "e", " ", "D",
      "i", "s", "c", "i", "p", "l", "i", "n", "e">>
T_Vigerend == <<"V", "i", "g", "e", "r", "e", "n", "d">>
T_Concept == <<"C", "o", "n", "c", "e", "p", "t">>
T_MaatregelenNodig ==
    <<"M", "a", "a", "t", "r", "e", "g", "e", "l", "e", "n", " ", "n", "o", "d",
      "i", "g">>
T_Afgehandeld == <<"A", "f", "g", "e", "h", "a", "n", "d", "e", "l", "d">>

---------------------------------------------------------------------------
(* Dates                                                                   *)

HoursPerDay == 24
DueSoonDays == 31

Null == [t |-> "null", s |-> <<>>, n |-> 0]

\* the time of local midnight of the day with spreadsheet serial k
Midnight(k) == k * HoursPerDay

\* Date texts: what the engine's Date parser makes of the date texts that occur
\* in the model's sheets; it makes NaN of every other text.
T_Date1 == <<"2", "0", "2", "3", "-", "0", "3", "-", "1", "5">>
T_Date2 == <<"2", "0", "2", "3", "-", "0", "5", "-", "0", "1">>
T_NoDate == <<"n", "n", "b">>
DateTexts == {T_Date1, T_Date2}
DateTextTime(text) ==
    IF text = T_Date1 THEN Midnight(45000) ELSE Midnight(45047)

\* XLSX.SSF.parse_date_code(value) followed by new Date(y, m - 1, d): the local
\* midnight of the serial's day, and no date for a serial out of range.
DateOfSerial(k) ==
    IF k < 0 \/ k > 2958465 THEN Null ELSE DateAt(Midnight(k))

parseExcelDate(value) ==
    IF ~Truthy(value) /\ ~(value.t = "n" /\ value.n = 0) THEN Null
    ELSE IF value.t = "d" THEN value
    ELSE IF value.t = "n" THEN DateOfSerial(value.n)
    ELSE IF value.t = "s" THEN
        LET trimmed == trim(value.s)
        IN  IF trimmed = <<>> THEN Null
            ELSE IF trimmed \notin DateTexts THEN Null
            ELSE DateAt(DateTextTime(trimmed))
    ELSE Null

IsDate(d) == d.t = "d"

---------------------------------------------------------------------------
(* Sorting: Array.prototype.sort is stable; the comparator is               *)
(* (a, b) => a.key.localeCompare(b.key) on entries [key, item]             *)

\* InsertByKey with x put before the entries it compares equal to
RECURSIVE InsertByKey_BeforeEqual(_, _)
InsertByKey_BeforeEqual(sorted, x) ==
    IF sorted = <<>> THEN <<x>>
    ELSE IF localeCompare(x.key, Head(sorted).key) <= 0 THEN <<x>> \o sorted
    ELSE <<Head(sorted)>> \o InsertByKey_BeforeEqual(Tail(sorted), x)

RECURSIVE InsertByKey(_, _)
InsertByKey(sorted, x) ==
    IF sorted = <<>> THEN <<x>>
    ELSE IF localeCompare(x.key, Head(sorted).key) < 0 THEN <<x>> \o sorted
    ELSE <<Head(sorted)>> \o InsertByKey(Tail(sorted), x)

RECURSIVE SortByKey(_)
SortByKey(entries) ==
    IF entries = <<>> THEN <<>>
    ELSE InsertByKey(SortByKey(SubSeq(entries, 1, Len(entries) - 1)),
                     entries[Len(entries)])

\* rows.sort((a, b) => String(a.code).localeCompare(String(b.code)))
SortByCode(records) ==
    LET keyed == [i \in 1..Len(records) |->
                    [key |-> StringOf(records[i].code), item |-> records[i]]]
        sorted == SortByKey(keyed)
    IN  [i \in 1..Len(sorted) |-> sorted[i].item]

\* names.sort((a, b) => a.localeCompare(b))
SortNames(names) ==
    LET keyed == [i \in 1..Len(names) |-> [key |-> names[i], item |-> names[i]]]
        sorted == SortByKey(keyed)
    IN  [i \in 1..Len(sorted) |-> sorted[i].item]

\* Array.from(new Set(values)): the distinct values in order of first insertion
RECURSIVE Distinct(_)
Distinct(values) ==
    IF values = <<>> THEN <<>>
    ELSE LET init == Distinct(SubSeq(values, 1, Len(values) - 1))
             last == values[Len(values)]
         IN  IF \E i \in DOMAIN init : init[i] = last THEN init
             ELSE Append(init, last)

---------------------------------------------------------------------------
(* Files and sheets.  A File is a handle; what readWorkbook and             *)
(* XLSX.utils.sheet_to_json(sheet, { header: 1, defval: '' }) return for it *)
(* is Content(file).  A handle names the header of the first sheet and,    *)
(* field by field, the cells of each data row.                             *)

T_D1 == <<"D", "1">>
T_D2 == <<"D", "2">>
T_Leak == <<"L", "e", "a", "k">>
T_M1 == <<"M", "1">>
T_FixPipe == <<"F", "i", "x", " ", "p", "i", "p", "e">>
T_Alice == <<"A", "l", "i", "c", "e">>
T_Bob == <<"B", "o", "b">>
T_Civiel == <<"C", "i", "v", "i", "e", "l">>
T_Elektra == <<"E", "l", "e", "k", "t", "r", "a">>
T_Geen == <<"G", "e", "e", "n">>
Padded(text) == <<" ">> \o text \o <<" ">>

RemoveAt(seq, i) == SubSeq(seq, 1, i - 1) \o SubSeq(seq, i + 1, Len(seq))

\* The first day of the model's calendar window, as a spreadsheet serial.
RefDay == 45000

\* The instants new Date() can return while a run computes.
Now0 == Midnight(RefDay + 1) + 9
Nows == {Now0, Now0 + 1}

\* The columns of an overview sheet, in the order of the full header.
FullHeader ==
    <<L_Code, L_Titel, L_Code2, L_Maatregel, L_Status2, L_Status, L_Actiehouder,
      L_Opsteller, L_GeplandeDatumKlaar, L_MaatregelenBeoordeling, L_DatumKlaar,
      L_VeroorzakendeDiscipline>>

\* A header is a sequence of columns [label, field]: the text of the header cell
\* and which field of a row the column holds.
HeaderOfLabels == [k \in DOMAIN FullHeader |-> [label |-> FullHeader[k], field |-> k]]
HeaderWithout(k) == RemoveAt(HeaderOfLabels, k)
\* the full header as a user may have typed it: other case, surrounding blanks
LooseHeader ==
    [k \in DOMAIN FullHeader |->
        [label |-> Padded([i \in DOMAIN FullHeader[k] |->
                             IF FullHeader[k][i] \in UpperSet
                             THEN LowerOfUpper[FullHeader[k][i]]
                             ELSE FullHeader[k][i]]),
         field |-> k]]

\* a header that carries the label 'Code' twice (over the codes and over the
\* measures), a 'Station' column (over the holders) and a cell without label
T_Station == <<"S", "t", "a", "t", "i", "o", "n">>
T_DateExport == <<"D", "a", "t", "e", " ", "e", "x", "p", "o", "r", "t">>
TwiceCodeHeader ==
    <<[label |-> L_Code, field |-> 1],
      [label |-> L_Titel, field |-> 2],
      [label |-> <<" ", "C", "O", "D", "E", " ">>, field |-> 4],
      [label |-> T_Station, field |-> 7],
      [label |-> <<>>, field |-> 3]>>

\* The headers of the model's sheets: 1 the full header, 2 the loose one,
\* 2 + k the full header without its k-th column, 15 the one with 'Code' twice.
Headers ==
    <<HeaderOfLabels, LooseHeader>>
    \o [k \in DOMAIN FullHeader |-> HeaderWithout(k)]
    \o <<TwiceCodeHeader>>
FullHeaderId == 1
LooseHeaderId == 2
HeaderWithoutId(k) == 2 + k
TwiceCodeHeaderId == 15

\* The cells a field of a data row can hold.
CodeCells ==
    <<Str(T_D1), Str(T_D2), Str(<<"B", "2">>), Str(<<"A", "1", "0">>), Str(<<"A", "2">>)>>
Status2Cells == <<Str(T_Vigerend), Str(Padded(T_Vigerend)), Str(T_Afgehandeld), Blank>>
StatusCells == <<Str(T_Vigerend), Str(T_Concept)>>
ActiehouderCells == <<Str(T_Alice), Str(Padded(T_Bob)), Blank, Str(<<" ", " ">>)>>
OpstellerCells == <<Blank, Str(T_Bob)>>
PlannedCells ==
    <<DateAt(Now0 - HoursPerDay),
      DateAt(Now0 - 1),
      DateAt(Now0),
      DateAt(Now0 + 1),
      DateAt(Now0 + DueSoonDays * HoursPerDay),
      DateAt(Now0 + DueSoonDays * HoursPerDay + 1),
      DateAt(Now0 + (DueSoonDays + 1) * HoursPerDay),
      Blank,
      Str(T_NoDate),
      Str(Padded(T_Date1)),
      Num(RefDay + DueSoonDays + 1),
      Num(RefDay + DueSoonDays + 9),
      Num(0 - 1),
      DateAt(Midnight(RefDay))>>
BeoordelingCells ==
    <<Blank, Str(T_MaatregelenNodig),
      Str(<<" ", "m", "a", "a", "t", "r", "e", "g", "e", "l", "e", "n", " ",
            "N", "O", "D", "I", "G">>),
      Str(T_Geen)>>
DoneCells ==
    <<Blank,
      DateAt(Midnight(RefDay) - HoursPerDay),
      DateAt(Midnight(RefDay)),
      DateAt(Midnight(RefDay) + 1),
      DateAt(Midnight(RefDay) + HoursPerDay + 6),
      Str(T_NoDate),
      Num(RefDay + 3)>>
DisciplineCells == <<Blank, Str(T_Civiel), Str(Padded(T_Elektra))>>

\* the cell of field k (a position of FullHeader) in the data row named by id
FieldAt(id, k) ==
    CASE k = 1  -> CodeCells[id.code]
      [] k = 2  -> Str(T_Leak)
      [] k = 3  -> Str(T_M1)
      [] k = 4  -> Str(T_FixPipe)
      [] k = 5  -> Status2Cells[id.status2]
      [] k = 6  -> StatusCells[id.status]
      [] k = 7  -> ActiehouderCells[id.actiehouder]
      [] k = 8  -> OpstellerCells[id.opsteller]
      [] k = 9  -> PlannedCells[id.planned]
      [] k = 10 -> BeoordelingCells[id.beoordeling]
      [] k = 11 -> DoneCells[id.done]
      [] OTHER  -> DisciplineCells[id.discipline]

NoFile == [present |-> FALSE, readable |-> FALSE, header |-> 0, rows |-> <<>>]
UnreadableFile == [present |-> TRUE, readable |-> FALSE, header |-> 0, rows |-> <<>>]
\* a workbook whose first sheet is empty: sheet_to_json returns []
EmptySheetFile == [present |-> TRUE, readable |-> TRUE, header |-> 0, rows |-> <<>>]
FileOf(header, rows) ==
    [present |-> TRUE, readable |-> TRUE, header |-> header, rows |-> rows]

\* The array of arrays sheet_to_json returns: the header row, then the data rows.
Content(file) ==
    IF file.header = 0 THEN <<>>
    ELSE LET header == Headers[file.header]
         IN  <<[i \in DOMAIN header |-> Str(header[i].label)]>>
             \o [j \in DOMAIN file.rows |->
                    [i \in DOMAIN header |-> FieldAt(file.rows[j], header[i].field)]]

\* the data row of the end-to-end scenario: planned yesterday
BaseRow ==
    [code |-> 1, status2 |-> 1, status |-> 1, actiehouder |-> 1, opsteller |-> 1,
     planned |-> 1, beoordeling |-> 1, done |-> 1, discipline |-> 1]

ConceptRow == [BaseRow EXCEPT !.code = 2, !.status = 2, !.status2 = 4, !.opsteller = 2]

\* a handled measure, finished 30 hours after its planned date
LateRow ==
    [BaseRow EXCEPT !.status2 = 3, !.beoordeling = 2, !.planned = 14, !.done = 5,
                    !.discipline = 2]

\* error.message of what readWorkbook throws on a file XLSX.read cannot parse
ReadErrorMessage == "XLSX.read: unreadable file"

---------------------------------------------------------------------------
(* runDataOphalen: the overview pass                                       *)

\* rows[0].map((value) => String(value ?? '').trim())
HeadersOf(rows) == [i \in 1..Len(rows[1]) |-> trim(StringOf(rows[1][i]))]

\* the nine getColumnIndex(headers, ...) calls, on the keys of the header row
OverviewColumnsOf(keys) ==
    [colCode          |-> FindKey(keys, normalize(Str(L_Code))),
     colTitel         |-> FindKey(keys, normalize(Str(L_Titel))),
     colMaatregelCode |-> FindKey(keys, normalize(Str(L_Code2))),
     colMaatregel     |-> FindKey(keys, normalize(Str(L_Maatregel))),
     colStatus        |-> FindKey(keys, normalize(Str(L_Status2))),
     colStatusSingle  |-> FindKey(keys, normalize(Str(L_Status))),
     colActiehouder   |-> FindKey(keys, normalize(Str(L_Actiehouder))),
     colOpsteller     |-> FindKey(keys, normalize(Str(L_Opsteller))),
     colDatum         |-> FindKey(keys, normalize(Str(L_GeplandeDatumKlaar)))]

OverviewColumns(headers) == OverviewColumnsOf(HeaderKeys(headers))

\* OverviewColumnsMissing without colDatum in the array that is tested
OverviewColumnsMissing_NoDatum(c) ==
    \E index \in {c.colCode, c.colTitel, c.colMaatregelCode, c.colMaatregel,
                  c.colStatus, c.colActiehouder} : index = NotFound

\* the condition of 'Kolomkoppen ontbreken in overzicht.'
OverviewColumnsMissing(c) ==
    \E index \in {c.colCode, c.colTitel, c.colMaatregelCode, c.colMaatregel,
                  c.colStatus, c.colActiehouder, c.colDatum} : index = NotFound

\* the condition of 'Geen data gevonden in overzicht.': !rows.length
NoRows(rows) == Len(rows) = 0

\* const thirtyOneDays = new Date(now.getTime() + 31 * 24 * 60 * 60 * 1000)
ThirtyOneDays(now) == now + DueSoonDays * HoursPerDay

\* Opmerking with the 31-day comparison strict (< for <=)
Opmerking_Strict(geplandeDatum, now) ==
    IF IsDate(geplandeDatum)
    THEN IF geplandeDatum.n < now THEN "Deadline verlopen"
         ELSE IF geplandeDatum.n < ThirtyOneDays(now)
              THEN "Deadline verloopt binnen 31 dagen"
              ELSE "Geen actie vereist"
    ELSE "Geen datum"

\* the remark of a row: the if / else if chain on geplandeDatum
Opmerking(geplandeDatum, now) ==
    IF IsDate(geplandeDatum)
    THEN IF geplandeDatum.n < now THEN "Deadline verlopen"
         ELSE IF geplandeDatum.n <= ThirtyOneDays(now)
              THEN "Deadline verloopt binnen 31 dagen"
              ELSE "Geen actie vereist"
    ELSE "Geen datum"

\* IsAchterstallig without the test of the remark
IsAchterstallig_AnyRemark(r, status, opmerking, actiehouderValue) ==
    /\ status = T_Vigerend
    /\ (r = "later" => actiehouderValue # <<>>)

\* the condition under which a row is pushed on achterstallig
IsAchterstallig(r, status, opmerking, actiehouderValue) ==
    /\ status = T_Vigerend
    /\ opmerking # "Geen actie vereist"
    /\ (r = "later" => actiehouderValue # <<>>)

\* IsConcept reading the Status (2) text for the Status text
IsConcept_Status2(statusSingle, colOpsteller) ==
    statusSingle = T_Vigerend /\ colOpsteller # NotFound

\* the condition under which a row is pushed on concept
IsConcept(statusSingle, colOpsteller) ==
    statusSingle = T_Concept /\ colOpsteller # NotFound

\* HolderAdded for every pushed row, whatever its holder
HolderAdded_Always(r, row, c, actiehouderValue) == TRUE

\* the condition under which a pushed row's holder is added to actiehouderSet
HolderAdded(r, row, c, actiehouderValue) ==
    IF r = "later" THEN actiehouderValue # <<>>
    ELSE Truthy(At(row, c.colActiehouder))

\* What one turn of the scan loop computes for a row.
ScanRow(r, row, c, now) ==
    LET status           == trim(StringOf(At(row, c.colStatus)))
        statusSingle     == trim(StringOf(At(row, c.colStatusSingle)))
        geplandeDatum    == parseExcelDate(At(row, c.colDatum))
        opmerking        == Opmerking(geplandeDatum, now)
        actiehouderValue == trim(StringOf(At(row, c.colActiehouder)))
    IN  [skipped       |-> Len(row) = 0,
         status        |-> status,
         statusSingle  |-> statusSingle,
         geplandeDatum |-> geplandeDatum,
         opmerking     |-> opmerking,
         pushed        |-> IsAchterstallig(r, status, opmerking, actiehouderValue),
         achterstallig |->
            [code          |-> At(row, c.colCode),
             titel         |-> At(row, c.colTitel),
             maatregelCode |-> At(row, c.colMaatregelCode),
             maatregel     |-> At(row, c.colMaatregel),
             status        |-> Str(status),
             actiehouder   |-> IF r = "later" THEN Str(actiehouderValue)
                               ELSE At(row, c.colActiehouder),
             geplandeDatum |-> geplandeDatum,
             opmerking     |-> opmerking],
         holderAdded   |-> HolderAdded(r, row, c, actiehouderValue),
         holder        |-> IF r = "later" THEN actiehouderValue
                           ELSE StringOf(At(row, c.colActiehouder)),
         isConcept     |-> IsConcept(statusSingle, c.colOpsteller),
         concept       |->
            [code          |-> At(row, c.colCode),
             titel         |-> At(row, c.colTitel),
             status        |-> Str(T_Concept),
             opsteller     |-> At(row, c.colOpsteller),
             geplandeDatum |-> geplandeDatum]]

\* for (let i = 1; i < rows.length; i += 1) { ... }, from turn i on
RECURSIVE ScanLoop(_, _, _, _, _, _)
ScanLoop(r, rows, i, c, now, acc) ==
    IF i > Len(rows) THEN acc
    ELSE LET x == ScanRow(r, rows[i], c, now)
             hit == ~x.skipped /\ x.pushed
         IN  ScanLoop(r, rows, i + 1, c, now,
                [achterstallig  |-> IF hit THEN Append(acc.achterstallig, x.achterstallig)
                                    ELSE acc.achterstallig,
                 actiehouderSet |-> IF hit /\ x.holderAdded
                                    THEN Distinct(Append(acc.actiehouderSet, x.holder))
                                    ELSE acc.actiehouderSet,
                 concept        |-> IF ~x.skipped /\ x.isConcept
                                    THEN Append(acc.concept, x.concept)
                                    ELSE acc.concept,
                 scan           |-> Append(acc.scan,
                                      [skipped |-> x.skipped, status |-> x.status,
                                       statusSingle |-> x.statusSingle,
                                       geplandeDatum |-> x.geplandeDatum,
                                       opmerking |-> x.opmerking,
                                       pushed |-> x.pushed,
                                       isConcept |-> x.isConcept])])

PublishedAchterstallig(list) == SortByCode(list)
PublishedConcept(list) == SortByCode(list)
PublishedActiehouders(set) == SortNames(set)

\* The try block of runDataOphalen up to the three setters: error = "" and the
\* three lists to publish, or the message of the Error thrown.
OverviewPass(r, file, now) ==
    LET rows == Content(file)
        none == [error |-> "", achterstallig |-> <<>>, concept |-> <<>>,
                 actiehouders |-> <<>>, scan |-> <<>>]
    IN  IF ~file.readable THEN [none EXCEPT !.error = ReadErrorMessage]
        ELSE IF NoRows(rows)
        THEN [none EXCEPT !.error = "Geen data gevonden in overzicht."]
        ELSE LET c == OverviewColumns(HeadersOf(rows))
             IN  IF OverviewColumnsMissing(c)
                 THEN [none EXCEPT !.error = "Kolomkoppen ontbreken in overzicht."]
                 ELSE LET acc == ScanLoop(r, rows, 2, c, now,
                                    [achterstallig |-> <<>>, actiehouderSet |-> <<>>,
                                     concept |-> <<>>, scan |-> <<>>])
                      IN  [error         |-> "",
                           achterstallig |-> PublishedAchterstallig(acc.achterstallig),
                           concept       |-> PublishedConcept(acc.concept),
                           actiehouders  |-> PublishedActiehouders(acc.actiehouderSet),
                           scan          |-> acc.scan]

---------------------------------------------------------------------------
(* runPowerBiExport of the later revision: the statistics pass             *)

RedMax == 35
GreenMin == 75

\* Numbers of double precision, as far as the percentages need them: a finite
\* number that is not negative is [bits, low], the integer with the binary
\* digits bits (most significant first) times 2^low; a double has DoubleBits
\* digits of which the first is 1, and zero has none.
DoubleBits == 53
QuotientBits == 64
\* the arithmetic on digits goes by groups of ChunkBits digits
ChunkBits == 16

DoubleZero == [nan |-> FALSE, bits |-> <<>>, low |-> 0]
DoubleNaN == [nan |-> TRUE, bits |-> <<>>, low |-> 0]

Zeros(n) == [i \in 1..n |-> 0]

\* the n lowest binary digits of the natural number k
FixedBits(k, n) == [i \in 1..n |-> (k \div 2 ^ (n - i)) % 2]

\* digits without their leading zeros
StripZeros(bits) ==
    IF \A i \in DOMAIN bits : bits[i] = 0 THEN <<>>
    ELSE LET first == CHOOSE i \in DOMAIN bits :
                        bits[i] = 1 /\ \A k \in 1..(i - 1) : bits[k] = 0
         IN  SubSeq(bits, first, Len(bits))

\* the binary digits of the natural number k (below 2^30), none for 0
BitsOf(k) == StripZeros(FixedBits(k, 30))

\* the natural number of at most ChunkBits digits
RECURSIVE ValueOf(_)
ValueOf(bits) ==
    IF bits = <<>> THEN 0
    ELSE 2 * ValueOf(SubSeq(bits, 1, Len(bits) - 1)) + bits[Len(bits)]

\* the digits of the integer of digits bits, plus one
BitsPlusOne(bits) ==
    IF \A i \in DOMAIN bits : bits[i] = 1 THEN <<1>> \o Zeros(Len(bits))
    ELSE LET last == CHOOSE i \in DOMAIN bits :
                        bits[i] = 0 /\ \A k \in (i + 1)..Len(bits) : bits[k] = 1
         IN  [i \in DOMAIN bits |-> IF i < last THEN bits[i] ELSE IF i = last THEN 1 ELSE 0]

\* the digits of the integer of digits bits (not zero), minus one
BitsMinusOne(bits) ==
    LET last == CHOOSE i \in DOMAIN bits :
                    bits[i] = 1 /\ \A k \in (i + 1)..Len(bits) : bits[k] = 0
    IN  [i \in DOMAIN bits |-> IF i < last THEN bits[i] ELSE IF i = last THEN 0 ELSE 1]

\* Rounding to nearest, ties to even: the double nearest to the number x, of
\* which sticky tells that digits below those of x were cut off
RoundDouble(x, sticky) ==
    LET bits == StripZeros(x.bits)
        len  == Len(bits)
    IN  IF len = 0 THEN DoubleZero
        ELSE IF len <= DoubleBits
        THEN [nan |-> FALSE, bits |-> bits \o Zeros(DoubleBits - len),
              low |-> x.low - (DoubleBits - len)]
        ELSE LET kept  == SubSeq(bits, 1, DoubleBits)
                 below == sticky \/ \E i \in (DoubleBits + 2)..len : bits[i] = 1
                 up    == bits[DoubleBits + 1] = 1 /\ (below \/ kept[DoubleBits] = 1)
                 more  == BitsPlusOne(kept)
                 low   == x.low + (len - DoubleBits)
             IN  IF ~up THEN [nan |-> FALSE, bits |-> kept, low |-> low]
                 ELSE IF Len(more) = DoubleBits
                 THEN [nan |-> FALSE, bits |-> more, low |-> low]
                 ELSE [nan |-> FALSE, bits |-> SubSeq(more, 1, DoubleBits), low |-> low + 1]

\* the first n digits of r / v after the binary point (r < v), n a multiple of
\* ChunkBits
RECURSIVE FractionBits(_, _, _)
FractionBits(r, v, n) ==
    IF n = 0 THEN <<>>
    ELSE FixedBits((r * 2 ^ ChunkBits) \div v, ChunkBits)
         \o FractionBits((r * 2 ^ ChunkBits) % v, v, n - ChunkBits)

\* what is left of r / v below its first n digits is not zero
RECURSIVE FractionLeft(_, _, _)
FractionLeft(r, v, n) ==
    IF n = 0 THEN r # 0 ELSE FractionLeft((r * 2 ^ ChunkBits) % v, v, n - ChunkBits)

\* count / validDates in double precision, for whole numbers (validDates > 0)
DoubleQuotient(count, validDates) ==
    RoundDouble([bits |-> BitsOf(count \div validDates)
                          \o FractionBits(count % validDates, validDates, QuotientBits),
                 low |-> 0 - QuotientBits],
                FractionLeft(count % validDates, validDates, QuotientBits))

\* the digits of the integer of digits bits times the whole number k, plus carry
RECURSIVE BitsTimes(_, _, _)
BitsTimes(bits, k, carry) ==
    IF bits = <<>> THEN BitsOf(carry)
    ELSE LET n == IF Len(bits) < ChunkBits THEN Len(bits) ELSE ChunkBits
             t == ValueOf(SubSeq(bits, Len(bits) - n + 1, Len(bits))) * k + carry
         IN  BitsTimes(SubSeq(bits, 1, Len(bits) - n), k, t \div 2 ^ n)
             \o FixedBits(t % 2 ^ n, n)

\* x * k in double precision, for a whole number k
DoubleTimes(x, k) ==
    RoundDouble([bits |-> BitsTimes(x.bits, k, 0), low |-> x.low], FALSE)

\* the digits of the sum of two integers of as many digits, plus carry
RECURSIVE BitsSum(_, _, _)
BitsSum(a, b, carry) ==
    IF a = <<>> THEN BitsOf(carry)
    ELSE LET n == IF Len(a) < ChunkBits THEN Len(a) ELSE ChunkBits
             t == ValueOf(SubSeq(a, Len(a) - n + 1, Len(a)))
                  + ValueOf(SubSeq(b, Len(b) - n + 1, Len(b))) + carry
         IN  BitsSum(SubSeq(a, 1, Len(a) - n), SubSeq(b, 1, Len(b) - n), t \div 2 ^ n)
             \o FixedBits(t % 2 ^ n, n)

\* x + y in double precision
DoublePlus(x, y) ==
    LET low  == IF x.bits = <<>> THEN y.low
                ELSE IF y.bits = <<>> THEN x.low
                ELSE IF x.low < y.low THEN x.low ELSE y.low
        a    == IF x.bits = <<>> THEN <<>> ELSE x.bits \o Zeros(x.low - low)
        b    == IF y.bits = <<>> THEN <<>> ELSE y.bits \o Zeros(y.low - low)
        len  == IF Len(a) > Len(b) THEN Len(a) ELSE Len(b)
    IN  RoundDouble([bits |-> BitsSum(Zeros(len - Len(a)) \o a,
                                      Zeros(len - Len(b)) \o b, 0),
                     low |-> low], FALSE)

\* the double of the whole number k
DoubleOf(k) == RoundDouble([bits |-> BitsOf(k), low |-> 0], FALSE)

\* x <= y, for doubles
DoubleAtMost(x, y) ==
    IF x.bits = <<>> THEN TRUE
    ELSE IF y.bits = <<>> THEN FALSE
    ELSE IF x.low # y.low THEN x.low < y.low
    ELSE \/ x.bits = y.bits
         \/ \E i \in 1..DoubleBits :
                /\ x.bits[i] < y.bits[i]
                /\ \A k \in 1..(i - 1) : x.bits[k] = y.bits[k]

\* Percent without the test of validDates
Percent_Unguarded(count, validDates) ==
    [num |-> count * 100, den |-> validDates,
     value |-> IF validDates = 0 THEN DoubleNaN
               ELSE DoubleTimes(DoubleQuotient(count, validDates), 100)]

\* validDates ? (count / validDates) * 100 : 0.  value is the double that is
\* published; num / den is the exact quotient (den > 0), which for the counts
\* of the model lies on the same side of 35 and of 75 as the double.
Percent(count, validDates) ==
    IF validDates # 0
    THEN [num |-> count * 100, den |-> validDates,
          value |-> DoubleTimes(DoubleQuotient(count, validDates), 100)]
    ELSE [num |-> 0, den |-> 1, value |-> DoubleZero]

\* Traffic with < for <= in the test of red
Traffic_StrictRed(onTimePercent) ==
    IF onTimePercent.num < RedMax * onTimePercent.den THEN "red"
    ELSE IF onTimePercent.num < GreenMin * onTimePercent.den THEN "orange"
    ELSE "green"

\* onTimePercent <= 35 ? 'red' : onTimePercent < 75 ? 'orange' : 'green'
Traffic(onTimePercent) ==
    IF onTimePercent.num <= RedMax * onTimePercent.den THEN "red"
    ELSE IF onTimePercent.num < GreenMin * onTimePercent.den THEN "orange"
    ELSE "green"

\* the nine getColumnIndex(headers, ...) calls, on the keys of the header row
StatsColumnsOf(keys) ==
    [colBeoordeling |-> FindKey(keys, normalize(Str(L_MaatregelenBeoordeling))),
     colStatus      |-> FindKey(keys, normalize(Str(L_Status2))),
     colPlanned     |-> FindKey(keys, normalize(Str(L_GeplandeDatumKlaar))),
     colDone        |-> FindKey(keys, normalize(Str(L_DatumKlaar))),
     colActiehouder |-> FindKey(keys, normalize(Str(L_Actiehouder))),
     colMaatregel   |-> FindKey(keys, normalize(Str(L_Maatregel))),
     colCode        |-> FindKey(keys, normalize(Str(L_Code))),
     colTitel       |-> FindKey(keys, normalize(Str(L_Titel))),
     colDiscipline  |-> FindKey(keys, normalize(Str(L_VeroorzakendeDiscipline)))]

StatsColumns(headers) == StatsColumnsOf(HeaderKeys(headers))

\* the condition of 'Kolomkoppen ontbreken in overzicht voor PowerBI.'
StatsColumnsMissing(c) ==
    \E index \in {c.colBeoordeling, c.colStatus, c.colPlanned, c.colDone} :
        index = NotFound

\* PassesFilter with && for || in the test that skips a row
PassesFilter_Either(beoordeling, status) ==
    \/ normalize(Str(beoordeling)) = normalize(Str(T_MaatregelenNodig))
    \/ normalize(Str(status)) = normalize(Str(T_Afgehandeld))

\* the double filter: a row that fails it is skipped (continue)
PassesFilter(beoordeling, status) ==
    /\ normalize(Str(beoordeling)) = normalize(Str(T_MaatregelenNodig))
    /\ normalize(Str(status)) = normalize(Str(T_Afgehandeld))

\* Completion with >= for > in the test of a late row
Completion_EqualLate(plannedDate, doneDate) ==
    IF ~IsDate(plannedDate) \/ ~IsDate(doneDate) THEN "missing"
    ELSE IF doneDate.n >= plannedDate.n THEN "late"
    ELSE "ontime"

\* Completion that tests the done date alone for null
Completion_DoneOnly(plannedDate, doneDate) ==
    IF ~IsDate(doneDate) THEN "missing"
    ELSE IF IsDate(plannedDate) /\ doneDate.n > plannedDate.n THEN "late"
    ELSE "ontime"

\* the bucket of a filtered row
Completion(plannedDate, doneDate) ==
    IF ~IsDate(plannedDate) \/ ~IsDate(doneDate) THEN "missing"
    ELSE IF doneDate.n > plannedDate.n THEN "late"
    ELSE "ontime"

\* Math.ceil((doneDate - plannedDate) / 86400000)
DiffDays(plannedDate, doneDate) ==
    LET diff == doneDate.n - plannedDate.n
    IN  IF diff >= 0 THEN (diff + HoursPerDay - 1) \div HoursPerDay
        ELSE 0 - ((0 - diff) \div HoursPerDay)

Max(a, b) == IF a >= b THEN a ELSE b

\* A Map is the sequence of its entries [key, value] in order of insertion.
MapHas(m, key) == \E i \in DOMAIN m : m[i].key = key
\* map.get(key) || 0
MapGetOr0(m, key) ==
    IF MapHas(m, key) THEN m[CHOOSE i \in DOMAIN m : m[i].key = key].value ELSE 0
MapSet(m, key, value) ==
    IF MapHas(m, key)
    THEN [i \in DOMAIN m |-> IF m[i].key = key THEN [key |-> key, value |-> value]
                             ELSE m[i]]
    ELSE Append(m, [key |-> key, value |-> value])

\* the condition under which a late row is added to the two discipline maps
DisciplineCounted(discipline) == discipline # <<>>

\* What one turn of the statistics loop computes for a row.
StatsRow(row, c) ==
    LET beoordeling == trim(StringOf(At(row, c.colBeoordeling)))
        status      == trim(StringOf(At(row, c.colStatus)))
        plannedDate == parseExcelDate(At(row, c.colPlanned))
        doneDate    == parseExcelDate(At(row, c.colDone))
        actiehouder == IF c.colActiehouder # NotFound
                       THEN trim(StringOf(At(row, c.colActiehouder))) ELSE <<>>
        maatregel   == IF c.colMaatregel # NotFound
                       THEN trim(StringOf(At(row, c.colMaatregel))) ELSE <<>>
        bucket      == Completion(plannedDate, doneDate)
    IN  [counted    |-> Len(row) # 0 /\ PassesFilter(beoordeling, status),
         bucket     |-> bucket,
         payload    |->
            [code          |-> IF c.colCode # NotFound THEN At(row, c.colCode) ELSE Blank,
             titel         |-> IF c.colTitel # NotFound THEN At(row, c.colTitel) ELSE Blank,
             maatregel     |-> Str(maatregel),
             actiehouder   |-> Str(actiehouder),
             geplandeDatum |-> plannedDate,
             datumKlaar    |-> doneDate],
         diffDays   |-> IF bucket = "late" THEN DiffDays(plannedDate, doneDate) ELSE 0,
         discipline |-> IF c.colDiscipline # NotFound
                        THEN trim(StringOf(At(row, c.colDiscipline))) ELSE <<>>]

\* StatsLoop keying every counted row, not only the late ones
RECURSIVE StatsLoop_KeyCounted(_, _, _, _)
StatsLoop_KeyCounted(rows, i, c, acc) ==
    IF i > Len(rows) THEN acc
    ELSE LET x == StatsRow(rows[i], c)
             late == x.counted /\ x.bucket = "late"
             keyed == x.counted /\ DisciplineCounted(x.discipline)
         IN  StatsLoop_KeyCounted(rows, i + 1, c,
                [totalFiltered |-> acc.totalFiltered + (IF x.counted THEN 1 ELSE 0),
                 validDates    |-> acc.validDates
                                   + (IF x.counted /\ x.bucket # "missing" THEN 1 ELSE 0),
                 overdueCount  |-> acc.overdueCount + (IF late THEN 1 ELSE 0),
                 missingDates  |-> acc.missingDates
                                   + (IF x.counted /\ x.bucket = "missing" THEN 1 ELSE 0),
                 onTimeRows    |-> IF x.counted /\ x.bucket = "ontime"
                                   THEN Append(acc.onTimeRows, x.payload)
                                   ELSE acc.onTimeRows,
                 lateRows      |-> IF late THEN Append(acc.lateRows, x.payload)
                                   ELSE acc.lateRows,
                 missingRows   |-> IF x.counted /\ x.bucket = "missing"
                                   THEN Append(acc.missingRows, x.payload)
                                   ELSE acc.missingRows,
                 disciplineTotals |->
                    IF keyed
                    THEN MapSet(acc.disciplineTotals, x.discipline,
                                MapGetOr0(acc.disciplineTotals, x.discipline)
                                + Max(x.diffDays, 0))
                    ELSE acc.disciplineTotals,
                 disciplineCounts |->
                    IF keyed
                    THEN MapSet(acc.disciplineCounts, x.discipline,
                                MapGetOr0(acc.disciplineCounts, x.discipline) + 1)
                    ELSE acc.disciplineCounts])

\* for (let i = 1; i < rows.length; i += 1) { ... }, from turn i on
RECURSIVE StatsLoop(_, _, _, _)
StatsLoop(rows, i, c, acc) ==
    IF i > Len(rows) THEN acc
    ELSE LET x == StatsRow(rows[i], c)
             late == x.counted /\ x.bucket = "late"
             keyed == late /\ DisciplineCounted(x.discipline)
         IN  StatsLoop(rows, i + 1, c,
                [totalFiltered |-> acc.totalFiltered + (IF x.counted THEN 1 ELSE 0),
                 validDates    |-> acc.validDates
                                   + (IF x.counted /\ x.bucket # "missing" THEN 1 ELSE 0),
                 overdueCount  |-> acc.overdueCount + (IF late THEN 1 ELSE 0),
                 missingDates  |-> acc.missingDates
                                   + (IF x.counted /\ x.bucket = "missing" THEN 1 ELSE 0),
                 onTimeRows    |-> IF x.counted /\ x.bucket = "ontime"
                                   THEN Append(acc.onTimeRows, x.payload)
                                   ELSE acc.onTimeRows,
                 lateRows      |-> IF late THEN Append(acc.lateRows, x.payload)
                                   ELSE acc.lateRows,
                 missingRows   |-> IF x.counted /\ x.bucket = "missing"
                                   THEN Append(acc.missingRows, x.payload)
                                   ELSE acc.missingRows,
                 disciplineTotals |->
                    IF keyed
                    THEN MapSet(acc.disciplineTotals, x.discipline,
                                MapGetOr0(acc.disciplineTotals, x.discipline)
                                + Max(x.diffDays, 0))
                    ELSE acc.disciplineTotals,
                 disciplineCounts |->
                    IF keyed
                    THEN MapSet(acc.disciplineCounts, x.discipline,
                                MapGetOr0(acc.disciplineCounts, x.discipline) + 1)
                    ELSE acc.disciplineCounts])

\* the object handed to setPowerBiStats
StatsOf(acc) ==
    LET overduePercent == Percent(acc.overdueCount, acc.validDates)
        onTimePercent  == Percent(acc.validDates - acc.overdueCount, acc.validDates)
    IN  [totalFiltered    |-> acc.totalFiltered,
         validDates       |-> acc.validDates,
         overdueCount     |-> acc.overdueCount,
         missingDates     |-> acc.missingDates,
         overduePercent   |-> overduePercent,
         onTimePercent    |-> onTimePercent,
         traffic          |-> Traffic(onTimePercent),
         onTimeRows       |-> acc.onTimeRows,
         lateRows         |-> acc.lateRows,
         missingRows      |-> acc.missingRows,
         disciplineTotals |-> acc.disciplineTotals,
         disciplineCounts |-> acc.disciplineCounts]

\* StatsPass counting on from the published totalFiltered
StatsPass_Incremental(file) ==
    LET rows == Content(file)
    IN  IF ~file.readable THEN [error |-> ReadErrorMessage, stats |-> Null]
        ELSE IF NoRows(rows)
        THEN [error |-> "Geen data gevonden in overzicht.", stats |-> Null]
        ELSE LET c == StatsColumns(HeadersOf(rows))
             IN  IF StatsColumnsMissing(c)
                 THEN [error |-> "Kolomkoppen ontbreken in overzicht voor PowerBI.",
                       stats |-> Null]
                 ELSE [error |-> "",
                       stats |-> StatsOf(StatsLoop(rows, 2, c,
                                    [totalFiltered |-> IF powerBiStats = Null THEN 0
                                                       ELSE powerBiStats.totalFiltered, validDates |-> 0,
                                     overdueCount |-> 0, missingDates |-> 0,
                                     onTimeRows |-> <<>>, lateRows |-> <<>>,
                                     missingRows |-> <<>>,
                                     disciplineTotals |-> <<>>,
                                     disciplineCounts |-> <<>>]))]

\* The try block of runPowerBiExport up to setPowerBiStats: error = "" and the
\* statistics to publish, or the message of the Error thrown.
StatsPass(file) ==
    LET rows == Content(file)
    IN  IF ~file.readable THEN [error |-> ReadErrorMessage, stats |-> Null]
        ELSE IF NoRows(rows)
        THEN [error |-> "Geen data gevonden in overzicht.", stats |-> Null]
        ELSE LET c == StatsColumns(HeadersOf(rows))
             IN  IF StatsColumnsMissing(c)
                 THEN [error |-> "Kolomkoppen ontbreken in overzicht voor PowerBI.",
                       stats |-> Null]
                 ELSE [error |-> "",
                       stats |-> StatsOf(StatsLoop(rows, 2, c,
                                    [totalFiltered |-> 0, validDates |-> 0,
                                     overdueCount |-> 0, missingDates |-> 0,
                                     onTimeRows |-> <<>>, lateRows |-> <<>>,
                                     missingRows |-> <<>>,
                                     disciplineTotals |-> <<>>,
                                     disciplineCounts |-> <<>>]))]

\* (a, b) => b.avgDays - a.avgDays, with avgDays = count ? totalDays / count : 0:
\* negative, zero or positive as the quotient of a is above, equal to or below
\* that of b
AvgCompare(a, b) ==
    LET num(row) == IF row.count # 0 THEN row.totalDays ELSE 0
        den(row) == IF row.count # 0 THEN row.count ELSE 1
    IN  num(b) * den(a) - num(a) * den(b)

\* Array.prototype.sort with AvgCompare, which is stable
RECURSIVE InsertByAvg(_, _)
InsertByAvg(sorted, x) ==
    IF sorted = <<>> THEN <<x>>
    ELSE IF AvgCompare(x, Head(sorted)) < 0 THEN <<x>> \o sorted
    ELSE <<Head(sorted)>> \o InsertByAvg(Tail(sorted), x)

RECURSIVE SortByAvg(_)
SortByAvg(entries) ==
    IF entries = <<>> THEN <<>>
    ELSE InsertByAvg(SortByAvg(SubSeq(entries, 1, Len(entries) - 1)),
                     entries[Len(entries)])

\* powerBiDisciplineData, the list the discipline chart presents
powerBiDisciplineData(stats) ==
    IF stats = Null THEN <<>>
    ELSE SortByAvg([i \in DOMAIN stats.disciplineTotals |->
            [discipline |-> stats.disciplineTotals[i].key,
             totalDays  |-> stats.disciplineTotals[i].value,
             count      |-> MapGetOr0(stats.disciplineCounts,
                                      stats.disciplineTotals[i].key)]])

---------------------------------------------------------------------------
(* The application state and its handlers                                  *)

\* addLog with prev.slice(-200)
addLog_Keep200(log, message, type) ==
    LET n == Len(log)
        kept == IF n > 200 THEN SubSeq(log, n - 199, n) ELSE log
    IN  Append(kept, [message |-> message, type |-> type])

\* setLogEntries((prev) => [...prev.slice(-199), { message, timestamp, type }])
addLog(log, message, type) ==
    LET n == Len(log)
        kept == IF n > 199 THEN SubSeq(log, n - 198, n) ELSE log
    IN  Append(kept, [message |-> message, type |-> type])

NoAudit == [op |-> "none"]

Snapshot ==
    [achterstalligRows |-> achterstalligRows, conceptRows |-> conceptRows,
     actiehouders |-> actiehouders, powerBiReady |-> powerBiReady,
     powerBiStats |-> powerBiStats]

\* A run in flight: the operation, the await it is suspended at, the files and
\* the station label its closure holds, what was published when it started,
\* whether it has called the setters of its results, and the instant a report
\* run took from new Date() before its await.
NewRun(op, pc) ==
    [op |-> op, pc |-> pc, file |-> overzichtFile, db |-> databaseFile,
     station |-> station, start |-> Snapshot, applied |-> FALSE, now |-> 0]

\* useState initial values, but for the two files and the station label, which
\* the user has chosen; e user events are still to come.
InitOf(ov, db, label, e) ==
    /\ rev \in {"earlier", "later"}
    /\ overzichtFile = ov
    /\ databaseFile = db
    /\ station = label
    /\ dashboardFile = NoFile
    /\ emailDraft = Null
    /\ lastEmailStation = <<>>
    /\ activePanel = "results"
    /\ busyAction = ""
    /\ logEntries = <<>>
    /\ achterstalligRows = <<>>
    /\ conceptRows = <<>>
    /\ actiehouders = <<>>
    /\ powerBiReady = FALSE
    /\ powerBiStats = Null
    /\ runs = <<>>
    /\ downloads = <<>>
    /\ events = e
    /\ passes = {}
    /\ audit = NoAudit

\* useState initial values; the overview file f is selected, and e user events
\* are still to come.
InitWith(f, e) == InitOf(f, NoFile, <<>>, e)

\* onChange of the overview file input, and handleDrop('overzicht')
SelectOverzicht(f) ==
    /\ events > 0
    /\ events' = events - 1
    /\ overzichtFile' = f
    /\ powerBiReady' = FALSE
    /\ powerBiStats' = Null
    /\ audit' = NoAudit
    /\ UNCHANGED <<rev, dashboardFile, emailDraft, lastEmailStation, activePanel,
                   station, passes, databaseFile, busyAction, logEntries, achterstalligRows,
                   conceptRows, actiehouders, runs, downloads>>

\* runDataOphalen up to its first await; the button is disabled while
\* !overzichtFile || busyAction === 'data'
RunDataOphalen ==
    /\ events > 0
    /\ overzichtFile.present
    /\ busyAction # "data"
    /\ events' = events - 1
    /\ busyAction' = "data"
    /\ logEntries' = addLog(logEntries, "Data ophalen gestart.", "info")
    /\ runs' = Append(runs, NewRun("data", "readOverzicht"))
    /\ audit' = NoAudit
    /\ UNCHANGED <<rev, dashboardFile, emailDraft, lastEmailStation, activePanel,
                   station, passes, overzichtFile, databaseFile, achterstalligRows, conceptRows,
                   actiehouders, powerBiReady, powerBiStats, downloads>>

\* DataOphalenSettle publishing the holder set of the run started last
DataOphalenSettle_SharedHolders(i, now, res) ==
    /\ achterstalligRows' = IF res.error = "" THEN res.achterstallig ELSE achterstalligRows
    /\ conceptRows' = IF res.error = "" THEN res.concept ELSE conceptRows
    /\ actiehouders' = IF res.error = ""
                       THEN OverviewPass(rev, runs[Len(runs)].file, now).actiehouders
                       ELSE actiehouders
    /\ logEntries' =
        IF res.error # "" THEN addLog(logEntries, res.error, "error")
        ELSE IF rev = "later"
        THEN addLog(addLog(logEntries, "Data ophalen afgerond.", "info"),
                    "PowerBI concept gestart.", "info")
        ELSE addLog(logEntries, "Data ophalen afgerond.", "info")
    /\ busyAction' = IF res.error = "" /\ rev = "later"
                     THEN (IF busyAction # "" THEN busyAction ELSE "powerbi")
                     ELSE ""
    /\ runs' = IF res.error = "" /\ rev = "later"
               THEN [runs EXCEPT ![i].pc = "readPowerBi", ![i].applied = TRUE]
               ELSE RemoveAt(runs, i)
    /\ audit' = [op |-> "overview", error |-> res.error, file |-> runs[i].file,
                 now |-> now, scan |-> res.scan, before |-> Snapshot,
                 start |-> runs[i].start]

\* What runDataOphalen does with the outcome res of its overview pass: the
\* three setters and, in the later revision, runPowerBiExport up to its first
\* await; on an Error the catch and the finally blocks.
DataOphalenSettle(i, now, res) ==
    /\ achterstalligRows' = IF res.error = "" THEN res.achterstallig ELSE achterstalligRows
    /\ conceptRows' = IF res.error = "" THEN res.concept ELSE conceptRows
    /\ actiehouders' = IF res.error = "" THEN res.actiehouders ELSE actiehouders
    /\ logEntries' =
        IF res.error # "" THEN addLog(logEntries, res.error, "error")
        ELSE IF rev = "later"
        THEN addLog(addLog(logEntries, "Data ophalen afgerond.", "info"),
                    "PowerBI concept gestart.", "info")
        ELSE addLog(logEntries, "Data ophalen afgerond.", "info")
    /\ busyAction' = IF res.error = "" /\ rev = "later"
                     THEN (IF busyAction # "" THEN busyAction ELSE "powerbi")
                     ELSE ""
    /\ runs' = IF res.error = "" /\ rev = "later"
               THEN [runs EXCEPT ![i].pc = "readPowerBi", ![i].applied = TRUE]
               ELSE RemoveAt(runs, i)
    /\ audit' = [op |-> "overview", error |-> res.error, file |-> runs[i].file,
                 now |-> now, scan |-> res.scan, before |-> Snapshot,
                 start |-> runs[i].start]

\* runDataOphalen from the return of readWorkbook on
DataOphalenResume(i) ==
    /\ runs[i].op = "data"
    /\ runs[i].pc = "readOverzicht"
    /\ \E now \in Nows : DataOphalenSettle(i, now, OverviewPass(rev, runs[i].file, now))
    /\ UNCHANGED <<rev, dashboardFile, emailDraft, lastEmailStation, activePanel,
                   station, passes, overzichtFile, databaseFile, powerBiReady, powerBiStats,
                   downloads, events>>

\* PowerBiSettle without the two setters of the catch block
PowerBiSettle_KeepOnError(i, res) ==
    /\ powerBiStats' = IF res.error = "" THEN res.stats ELSE powerBiStats
    /\ powerBiReady' = IF res.error = "" THEN TRUE ELSE powerBiReady
    /\ logEntries' =
        IF res.error # "" THEN addLog(logEntries, res.error, "error")
        ELSE IF res.stats.missingDates > 0
        THEN addLog(addLog(logEntries, "PowerBI data klaar.", "info"),
                    ToString(res.stats.missingDates)
                        \o " rijen missen Geplande datum klaar of Datum klaar.",
                    "error")
        ELSE addLog(logEntries, "PowerBI data klaar.", "info")
    /\ passes' = IF res.error # "" THEN passes
                 ELSE passes \cup {[file |-> runs[i].file, before |-> powerBiStats,
                                    stats |-> res.stats]}
    /\ busyAction' = ""
    /\ runs' = RemoveAt(runs, i)
    /\ audit' = [op |-> "stats", error |-> res.error, file |-> runs[i].file,
                 before |-> Snapshot, start |-> runs[i].start,
                 applied |-> runs[i].applied]

\* PowerBiSettle without the finally block of runDataOphalen
PowerBiSettle_InnerFinally(i, res) ==
    /\ powerBiStats' = IF res.error = "" THEN res.stats ELSE Null
    /\ powerBiReady' = (res.error = "")
    /\ logEntries' =
        IF res.error # "" THEN addLog(logEntries, res.error, "error")
        ELSE IF res.stats.missingDates > 0
        THEN addLog(addLog(logEntries, "PowerBI data klaar.", "info"),
                    ToString(res.stats.missingDates)
                        \o " rijen missen Geplande datum klaar of Datum klaar.",
                    "error")
        ELSE addLog(logEntries, "PowerBI data klaar.", "info")
    /\ passes' = IF res.error # "" THEN passes
                 ELSE passes \cup {[file |-> runs[i].file, before |-> powerBiStats,
                                    stats |-> res.stats]}
    /\ busyAction' = IF busyAction = "powerbi" THEN "" ELSE busyAction
    /\ runs' = RemoveAt(runs, i)
    /\ audit' = [op |-> "stats", error |-> res.error, file |-> runs[i].file,
                 before |-> Snapshot, start |-> runs[i].start,
                 applied |-> runs[i].applied]

\* What runPowerBiExport (later revision) does with the outcome res of its
\* statistics pass: setPowerBiStats and setPowerBiReady, or the catch block; its
\* finally block; then the finally block of the runDataOphalen that awaited it.
PowerBiSettle(i, res) ==
    /\ powerBiStats' = IF res.error = "" THEN res.stats ELSE Null
    /\ powerBiReady' = (res.error = "")
    /\ logEntries' =
        IF res.error # "" THEN addLog(logEntries, res.error, "error")
        ELSE IF res.stats.missingDates > 0
        THEN addLog(addLog(logEntries, "PowerBI data klaar.", "info"),
                    ToString(res.stats.missingDates)
                        \o " rijen missen Geplande datum klaar of Datum klaar.",
                    "error")
        ELSE addLog(logEntries, "PowerBI data klaar.", "info")
    /\ passes' = IF res.error # "" THEN passes
                 ELSE passes \cup {[file |-> runs[i].file, before |-> powerBiStats,
                                    stats |-> res.stats]}
    /\ busyAction' = ""
    /\ runs' = RemoveAt(runs, i)
    /\ audit' = [op |-> "stats", error |-> res.error, file |-> runs[i].file,
                 before |-> Snapshot, start |-> runs[i].start,
                 applied |-> runs[i].applied]

\* runPowerBiExport (later revision) from the return of readWorkbook on
PowerBiResume(i) ==
    /\ runs[i].op = "data"
    /\ runs[i].pc = "readPowerBi"
    /\ PowerBiSettle(i, StatsPass(runs[i].file))
    /\ UNCHANGED <<rev, dashboardFile, emailDraft, lastEmailStation, activePanel,
                   station, overzichtFile, databaseFile, achterstalligRows, conceptRows,
                   actiehouders, downloads, events>>

---------------------------------------------------------------------------
(* The other handlers that touch the published results                     *)

\* The first sheet of a database file: a title row, the header row, then the
\* data rows.  A handle says which leading rows the sheet has (header 0: none,
\* the sheet is empty; 1: the title row alone; 1 + h: the title row and the
\* header row DatabaseHeaders[h]) and names its data rows like an overview
\* file does.  A column of field 0 holds no cell in the data rows.
T_Notes == <<"N", "o", "t", "e", "s">>
DatabaseHeaders ==
    <<<<[label |-> L_Code, field |-> 1], [label |-> L_Titel, field |-> 2],
        [label |-> T_Station, field |-> 0], [label |-> T_DateExport, field |-> 0]>>,
      <<[label |-> <<" ", "t", "i", "t", "e", "l">>, field |-> 2],
        [label |-> T_Notes, field |-> 4],
        [label |-> <<"S", "T", "A", "T", "I", "O", "N", " ">>, field |-> 7],
        [label |-> L_Code, field |-> 1],
        [label |-> <<>>, field |-> 3],
        [label |-> <<" ", "d", "a", "t", "e", " ", "e", "x", "p", "o", "r", "t">>,
         field |-> 9]>>,
      <<[label |-> T_Notes, field |-> 4], [label |-> L_Actiehouder, field |-> 7]>>>>

\* A sheet is its cells, row by row (Undefined where the sheet holds no cell),
\* and the end of its '!ref' range, e.r and e.c counted from 0; the range of
\* every sheet starts at A1.
DatabaseSheet(file) ==
    IF file.header = 0 THEN [cells |-> <<>>, range |-> [r |-> 0, c |-> 0]]
    ELSE IF file.header = 1
    THEN [cells |-> <<<<Str(T_D1)>>>>, range |-> [r |-> 0, c |-> 0]]
    ELSE LET header == DatabaseHeaders[file.header - 1]
         IN  [cells |->
                <<[i \in DOMAIN header |-> IF i = 1 THEN Str(T_D1) ELSE Undefined],
                  [i \in DOMAIN header |-> Str(header[i].label)]>>
                \o [j \in DOMAIN file.rows |->
                       [i \in DOMAIN header |->
                           IF header[i].field = 0 THEN Undefined
                           ELSE FieldAt(file.rows[j], header[i].field)]],
              range |-> [r |-> Len(file.rows) + 1, c |-> Len(header) - 1]]

\* XLSX.utils.sheet_to_json(sheet, { header: 1, defval: '' }): the rows of the
\* range, '' where the sheet holds no cell; [] for a sheet without cells
sheet_to_json(sheet) ==
    IF sheet.cells = <<>> THEN <<>>
    ELSE [i \in 1..(sheet.range.r + 1) |->
            [j \in 1..(sheet.range.c + 1) |->
                IF i \in DOMAIN sheet.cells /\ j \in DOMAIN sheet.cells[i]
                   /\ sheet.cells[i][j] # Undefined
                THEN sheet.cells[i][j] ELSE Blank]]

DatabaseContent(file) == sheet_to_json(DatabaseSheet(file))

\* SelectDatabase without setPowerBiStats(null)
SelectDatabase_KeepStats(f) ==
    /\ events > 0
    /\ events' = events - 1
    /\ databaseFile' = f
    /\ powerBiReady' = FALSE
    /\ powerBiStats' = powerBiStats
    /\ audit' = NoAudit
    /\ UNCHANGED <<rev, dashboardFile, emailDraft, lastEmailStation, activePanel,
                   station, passes, overzichtFile, busyAction, logEntries, achterstalligRows,
                   conceptRows, actiehouders, runs, downloads>>

\* onChange of the database file input, and handleDrop('database')
SelectDatabase(f) ==
    /\ events > 0
    /\ events' = events - 1
    /\ databaseFile' = f
    /\ powerBiReady' = FALSE
    /\ powerBiStats' = Null
    /\ audit' = NoAudit
    /\ UNCHANGED <<rev, dashboardFile, emailDraft, lastEmailStation, activePanel,
                   station, passes, overzichtFile, busyAction, logEntries, achterstalligRows,
                   conceptRows, actiehouders, runs, downloads>>

\* buildEmailDraft(stationLabel): the subject is made of the trimmed label, or
\* 'Station' for an empty one, and of the week and the year of new Date(), of
\* which the model keeps the instant; the body is a fixed text
buildEmailDraft(stationLabel, now) ==
    [subject |-> [station |-> IF trim(stationLabel) # <<>> THEN trim(stationLabel)
                              ELSE <<"S", "t", "a", "t", "i", "o", "n">>,
                  now     |-> now],
     body    |-> "Beste collega's, ..."]

\* The effect on [activePanel, emailDraft, lastEmailStation, station] of the
\* later revision, run after a handler has left panel, draft and label in
\* these and log in the log: it calls runEmailDraft when the email panel is
\* active and there is no draft or the draft is of another label.
EmailEffect(panel, draft, label, log, now) ==
    IF rev = "later" /\ panel = "email" /\ (draft = Null \/ lastEmailStation # label)
    THEN /\ emailDraft' = buildEmailDraft(label, now)
         /\ lastEmailStation' = label
         /\ logEntries' = addLog(log, "Email concept gegenereerd.", "info")
    ELSE /\ emailDraft' = draft
         /\ lastEmailStation' = lastEmailStation
         /\ logEntries' = log

\* onChange of the station input
SetStation(text) ==
    /\ events > 0
    /\ events' = events - 1
    /\ station' = text
    /\ \E now \in Nows : EmailEffect(activePanel, emailDraft, text, logEntries, now)
    /\ audit' = NoAudit
    /\ UNCHANGED <<rev, dashboardFile, activePanel, passes, overzichtFile, databaseFile,
                   busyAction, achterstalligRows, conceptRows, actiehouders, powerBiReady,
                   powerBiStats, runs, downloads>>

\* what the reset button looks at: recorded before it acts
ResetView ==
    [dashboardFile |-> dashboardFile, overzichtFile |-> overzichtFile,
     databaseFile |-> databaseFile, station |-> station, activePanel |-> activePanel,
     emailDraft |-> emailDraft, logEntries |-> logEntries, published |-> Snapshot]

\* Verversen without setPowerBiStats(null)
Verversen_KeepStats ==
    /\ events > 0
    /\ events' = events - 1
    /\ achterstalligRows' = <<>>
    /\ conceptRows' = <<>>
    /\ actiehouders' = <<>>
    /\ powerBiReady' = FALSE
    /\ powerBiStats' = powerBiStats
    /\ \E now \in Nows : EmailEffect(activePanel, Null, station, <<>>, now)
    /\ audit' = [op |-> "reset", before |-> ResetView]
    /\ UNCHANGED <<rev, dashboardFile, activePanel, station, passes, overzichtFile,
                   databaseFile, busyAction, runs, downloads>>

\* onClick of 'Reset scherm' (earlier revision) and of 'Verversen' (later), and
\* the email draft effect that setEmailDraft(null) sets off
Verversen ==
    /\ events > 0
    /\ events' = events - 1
    /\ achterstalligRows' = <<>>
    /\ conceptRows' = <<>>
    /\ actiehouders' = <<>>
    /\ powerBiReady' = FALSE
    /\ powerBiStats' = Null
    /\ \E now \in Nows : EmailEffect(activePanel, Null, station, <<>>, now)
    /\ audit' = [op |-> "reset", before |-> ResetView]
    /\ UNCHANGED <<rev, dashboardFile, activePanel, station, passes, overzichtFile,
                   databaseFile, busyAction, runs, downloads>>

\* the panel toggles: 'powerbi' is a panel of the later revision
Panels == {"results", "email", "log", "powerbi"}

\* onClick of a panel toggle, and the email draft effect
TogglePanel(panel) ==
    /\ events > 0
    /\ rev = "earlier" => panel # "powerbi"
    /\ events' = events - 1
    /\ activePanel' = IF activePanel = panel THEN "none" ELSE panel
    /\ \E now \in Nows :
        EmailEffect(IF activePanel = panel THEN "none" ELSE panel, emailDraft, station,
                    logEntries, now)
    /\ audit' = NoAudit
    /\ UNCHANGED <<rev, dashboardFile, station, passes, overzichtFile, databaseFile,
                   busyAction, achterstalligRows, conceptRows, actiehouders, powerBiReady,
                   powerBiStats, runs, downloads>>

\* onClick of 'Email opstellen', a button of the earlier revision
RunEmailDraft ==
    /\ rev = "earlier"
    /\ events > 0
    /\ events' = events - 1
    /\ \E now \in Nows : emailDraft' = buildEmailDraft(station, now)
    /\ logEntries' = addLog(logEntries, "Email concept gegenereerd.", "info")
    /\ audit' = NoAudit
    /\ UNCHANGED <<rev, dashboardFile, lastEmailStation, activePanel, station, passes,
                   overzichtFile, databaseFile, busyAction, achterstalligRows, conceptRows,
                   actiehouders, powerBiReady, powerBiStats, runs, downloads>>

\* a dashboard workbook: b1 is the text of String(sheet.B1.v), empty when the
\* cell is absent or falsy
DashboardOf(b1) == [present |-> TRUE, readable |-> TRUE, b1 |-> b1]
UnreadableDashboard == [present |-> TRUE, readable |-> FALSE, b1 |-> <<>>]

\* handleDashboardUpload up to await readWorkbook(file)
SelectDashboard(f) ==
    /\ events > 0
    /\ events' = events - 1
    /\ dashboardFile' = f
    /\ runs' = IF f.present
               THEN Append(runs, [NewRun("dashboard", "readDashboard") EXCEPT !.file = f])
               ELSE runs
    /\ audit' = NoAudit
    /\ UNCHANGED <<rev, emailDraft, lastEmailStation, activePanel, station, passes,
                   overzichtFile, databaseFile, busyAction, logEntries, achterstalligRows,
                   conceptRows, actiehouders, powerBiReady, powerBiStats, downloads>>

\* handleDashboardUpload from the return of readWorkbook on, and the email
\* draft effect
DashboardResume(i) ==
    /\ runs[i].op = "dashboard"
    /\ runs[i].pc = "readDashboard"
    /\ LET f == runs[i].file
           filled == f.readable /\ f.b1 # <<>>
           label == IF filled THEN f.b1 ELSE station
           log == IF ~f.readable
                  THEN addLog(logEntries, "Dashboard kon niet worden uitgelezen.", "error")
                  ELSE IF filled
                  THEN addLog(logEntries, "Station gevuld vanuit dashboard.", "info")
                  ELSE logEntries
       IN  /\ station' = label
           /\ \E now \in Nows : EmailEffect(activePanel, emailDraft, label, log, now)
    /\ runs' = RemoveAt(runs, i)
    /\ audit' = NoAudit
    /\ UNCHANGED <<rev, dashboardFile, activePanel, passes, overzichtFile, databaseFile,
                   busyAction, achterstalligRows, conceptRows, actiehouders, powerBiReady,
                   powerBiStats, events, downloads>>

\* setCellValue(sheet, rowIndex, colIndex, value): the cell it stores
setCellValue(value) ==
    IF value.t \in {"u", "null"} \/ (value.t = "s" /\ value.s = <<>>) THEN Blank
    ELSE IF value.t = "d" THEN DateAt(value.n)
    ELSE IF value.t = "n" THEN Num(value.n)
    ELSE Str(StringOf(value))

\* new Map(entries): the entries in order, a later entry of a key replacing
\* the value of the earlier one
RECURSIVE MapOf(_)
MapOf(entries) ==
    IF entries = <<>> THEN <<>>
    ELSE LET last == entries[Len(entries)]
         IN  MapSet(MapOf(SubSeq(entries, 1, Len(entries) - 1)), last.key, last.value)

\* entries.filter(([key]) => key)
RECURSIVE WithKey(_)
WithKey(entries) ==
    IF entries = <<>> THEN <<>>
    ELSE (IF Head(entries).key # <<>> THEN <<Head(entries)>> ELSE <<>>)
         \o WithKey(Tail(entries))

\* new Map(ovHeaders.map((header, index) => [normalize(header), index])
\*             .filter(([key]) => key))
HeaderMapOf(ovHeaders) ==
    MapOf(WithKey([i \in DOMAIN ovHeaders |->
                      [key |-> normalize(Str(ovHeaders[i])), value |-> i]]))

\* map.get(key): NotFound stands for undefined
MapGet(m, key) ==
    IF MapHas(m, key) THEN m[CHOOSE i \in DOMAIN m : m[i].key = key].value ELSE NotFound

\* rows[k].map((value) => String(value ?? '').trim())
LabelsOf(row) == [i \in DOMAIN row |-> trim(StringOf(row[i]))]

\* TranscribeRow that leaves a matched column as it was in the turns beyond
\* the rows of the overview
TranscribeRow_KeepStale(old, ovRow, inRange, c, now, label) ==
    LET copied ==
            [colIndex \in DOMAIN c.dbKeys |->
                LET ovColIndex == MapGet(c.ovHeaderMap, c.dbKeys[colIndex])
                IN  IF ovColIndex = NotFound \/ ~inRange THEN old[colIndex]
                    ELSE setCellValue(At(ovRow, ovColIndex))]
        dated ==
            IF c.dateExportCol = NotFound THEN copied
            ELSE [copied EXCEPT ![c.dateExportCol] =
                    setCellValue(IF inRange THEN DateAt(now) ELSE Blank)]
    IN  IF c.stationCol = NotFound THEN dated
        ELSE [dated EXCEPT ![c.stationCol] =
                setCellValue(IF inRange THEN Str(label) ELSE Blank)]

\* TranscribeRow that blanks a column without source column within the rows of
\* the overview
TranscribeRow_BlankUnmatched(old, ovRow, inRange, c, now, label) ==
    LET copied ==
            [colIndex \in DOMAIN c.dbKeys |->
                LET ovColIndex == MapGet(c.ovHeaderMap, c.dbKeys[colIndex])
                IN  IF ovColIndex = NotFound
                    THEN (IF inRange THEN Blank ELSE old[colIndex])
                    ELSE setCellValue(IF inRange THEN At(ovRow, ovColIndex) ELSE Blank)]
        dated ==
            IF c.dateExportCol = NotFound THEN copied
            ELSE [copied EXCEPT ![c.dateExportCol] =
                    setCellValue(IF inRange THEN DateAt(now) ELSE Blank)]
    IN  IF c.stationCol = NotFound THEN dated
        ELSE [dated EXCEPT ![c.stationCol] =
                setCellValue(IF inRange THEN Str(label) ELSE Blank)]

\* TranscribeRow that writes the station label in every turn of the loop
TranscribeRow_LabelEverywhere(old, ovRow, inRange, c, now, label) ==
    LET copied ==
            [colIndex \in DOMAIN c.dbKeys |->
                LET ovColIndex == MapGet(c.ovHeaderMap, c.dbKeys[colIndex])
                IN  IF ovColIndex = NotFound THEN old[colIndex]
                    ELSE setCellValue(IF inRange THEN At(ovRow, ovColIndex) ELSE Blank)]
        dated ==
            IF c.dateExportCol = NotFound THEN copied
            ELSE [copied EXCEPT ![c.dateExportCol] =
                    setCellValue(IF inRange THEN DateAt(now) ELSE Blank)]
    IN  IF c.stationCol = NotFound THEN dated
        ELSE [dated EXCEPT ![c.stationCol] = setCellValue(Str(label))]

\* One turn of the row loop of runPowerBiExport (earlier revision): the cells
\* of the database row after it, old being its cells before; inRange is
\* rowIndex < dataRowCount, now what new Date() returns in this turn, and c
\* the keys of dbHeaders, ovHeaderMap and the two getColumnIndex results.
TranscribeRow(old, ovRow, inRange, c, now, label) ==
    LET copied ==
            [colIndex \in DOMAIN c.dbKeys |->
                LET ovColIndex == MapGet(c.ovHeaderMap, c.dbKeys[colIndex])
                IN  IF ovColIndex = NotFound THEN old[colIndex]
                    ELSE setCellValue(IF inRange THEN At(ovRow, ovColIndex) ELSE Blank)]
        dated ==
            IF c.dateExportCol = NotFound THEN copied
            ELSE [copied EXCEPT ![c.dateExportCol] =
                    setCellValue(IF inRange THEN DateAt(now) ELSE Blank)]
    IN  IF c.stationCol = NotFound THEN dated
        ELSE [dated EXCEPT ![c.stationCol] =
                setCellValue(IF inRange THEN Str(label) ELSE Blank)]

\* RangeAfter with maxRows for maxRows + 1
RangeAfter_OffByOne(range, maxRows, dbHeaders) ==
    [r |-> Max(range.r, maxRows), c |-> Max(range.c, Len(dbHeaders) - 1)]

\* const range = decode_range(dbSheet['!ref'] || 'A1') and the two Math.max
RangeAfter(range, maxRows, dbHeaders) ==
    [r |-> Max(range.r, maxRows + 1), c |-> Max(range.c, Len(dbHeaders) - 1)]

\* Transcribe with rowIndex + 1 for dbRowIndex
Transcribe_FromHeaderRow(dbSheet, dbRows, ovRows, label, clock) ==
    LET dbHeaders      == LabelsOf(dbRows[2])
        dbKeys         == HeaderKeys(dbHeaders)
        dataRowCount   == Len(ovRows) - 1
        dbDataRowCount == Max(Len(dbRows) - 2, 0)
        maxRows        == Max(dataRowCount, dbDataRowCount)
        c == [dbKeys        |-> dbKeys,
              ovHeaderMap   |-> HeaderMapOf(LabelsOf(ovRows[1])),
              dateExportCol |-> FindKey(dbKeys, normalize(Str(T_DateExport))),
              stationCol    |-> FindKey(dbKeys, normalize(Str(T_Station)))]
        none           == [i \in DOMAIN dbHeaders |-> Undefined]
    IN  [cells |->
            [i \in 1..Max(Len(dbSheet.cells), maxRows + 1) |->
                IF i <= 1 \/ i - 1 > maxRows THEN dbSheet.cells[i]
                ELSE TranscribeRow(IF i \in DOMAIN dbSheet.cells
                                   THEN dbSheet.cells[i] ELSE none,
                                   IF i \in DOMAIN ovRows THEN ovRows[i] ELSE <<>>,
                                   i - 1 <= dataRowCount, c,
                                   IF i - 1 \in DOMAIN clock THEN clock[i - 1] ELSE 0,
                                   label)],
         range |-> RangeAfter(dbSheet.range, maxRows, dbHeaders)]

\* The try block of runPowerBiExport (earlier revision) from dbHeaders on: the
\* database sheet after the loop and the update of '!ref'.  clock[k] is what
\* new Date() returns in the k-th turn of the loop.
Transcribe(dbSheet, dbRows, ovRows, label, clock) ==
    LET dbHeaders      == LabelsOf(dbRows[2])
        dbKeys         == HeaderKeys(dbHeaders)
        dataRowCount   == Len(ovRows) - 1
        dbDataRowCount == Max(Len(dbRows) - 2, 0)
        maxRows        == Max(dataRowCount, dbDataRowCount)
        c == [dbKeys        |-> dbKeys,
              ovHeaderMap   |-> HeaderMapOf(LabelsOf(ovRows[1])),
              dateExportCol |-> FindKey(dbKeys, normalize(Str(T_DateExport))),
              stationCol    |-> FindKey(dbKeys, normalize(Str(T_Station)))]
        none           == [i \in DOMAIN dbHeaders |-> Undefined]
    IN  [cells |->
            [i \in 1..Max(Len(dbSheet.cells), maxRows + 2) |->
                IF i <= 2 \/ i - 2 > maxRows THEN dbSheet.cells[i]
                ELSE TranscribeRow(IF i \in DOMAIN dbSheet.cells
                                   THEN dbSheet.cells[i] ELSE none,
                                   IF i - 1 \in DOMAIN ovRows THEN ovRows[i - 1] ELSE <<>>,
                                   i - 2 <= dataRowCount, c,
                                   IF i - 2 \in DOMAIN clock THEN clock[i - 2] ELSE 0,
                                   label)],
         range |-> RangeAfter(dbSheet.range, maxRows, dbHeaders)]

\* the instants new Date() returns in n successive turns of a loop
Clocks(n) == {clock \in [1..n -> Nows] : \A i, j \in 1..n : i < j => clock[i] <= clock[j]}

\* what a download is: the database file with the overview transcribed into it
\* (earlier revision's runPowerBiExport): the two files it is made from, the
\* station label and the sheet written; or the report
\* (downloadDashboardExport), made from the three lists
Transcription(db, ov, label, clock) ==
    [kind |-> "database", db |-> db, ov |-> ov, station |-> label,
     sheet |-> Transcribe(DatabaseSheet(db), DatabaseContent(db), Content(ov),
                          label, clock),
     achterstallig |-> <<>>, concept |-> <<>>, actiehouders |-> <<>>]
\* buildSheet without the placeholder row of an empty table
buildSheet_NoPlaceholder(name, headers, rows, meta) ==
    [name  |-> name,
     rows  |-> meta,
     table |-> [ref |-> Len(meta) + 1, columns |-> headers, rows |-> rows]]

\* buildSheet(name, headers, rows, tableName): the rows added with addRow (meta
\* is exportMetaRows) and the table added at 'A4', its header row included
buildSheet(name, headers, rows, meta) ==
    [name  |-> name,
     rows  |-> meta,
     table |-> [ref     |-> Len(meta) + 1,
                columns |-> headers,
                rows    |-> IF Len(rows) # 0 THEN rows
                            ELSE <<[i \in DOMAIN headers |-> Blank]>>]]

headersAchterstallig ==
    <<"Afw. Code", "Afwijking Titel", "Maatregel Code", "Maatregel", "Status",
      "Actiehouder", "Geplande datum klaar", "Opmerking">>
headersConcept ==
    <<"Afw. Code", "Afwijking Titel", "Status", "Opsteller", "Geplande datum klaar">>

\* [['Project', station || ''], ['Type', 'Afwijkingen overzicht'],
\*  ['Datum DB', new Date().toLocaleString('nl-NL')]]
exportMetaRows(label, now) ==
    <<<<"Project", Str(label)>>,
      <<"Type", "Afwijkingen overzicht">>,
      <<"Datum DB", Str(StringOf(DateAt(now)))>>>>

\* the workbook downloadDashboardExport builds from the three lists
Report(lists, label, now) ==
    LET meta == exportMetaRows(label, now)
        achterstalligData ==
            [i \in DOMAIN lists.achterstalligRows |->
                LET row == lists.achterstalligRows[i]
                IN  <<row.code, row.titel, row.maatregelCode, row.maatregel, row.status,
                      row.actiehouder, row.geplandeDatum, row.opmerking>>]
        conceptData ==
            [i \in DOMAIN lists.conceptRows |->
                LET row == lists.conceptRows[i]
                IN  <<row.code, row.titel, row.status, row.opsteller, row.geplandeDatum>>]
        actiehouderRows ==
            [i \in DOMAIN lists.actiehouders |-> <<lists.actiehouders[i]>>]
    IN  [kind |-> "report", db |-> NoFile, ov |-> NoFile,
         achterstallig |-> lists.achterstalligRows, concept |-> lists.conceptRows,
         actiehouders |-> lists.actiehouders,
         sheets |->
            <<buildSheet("Afwijking achterstallig", headersAchterstallig,
                         achterstalligData, meta),
              buildSheet("Afwijking concept", headersConcept, conceptData, meta),
              buildSheet("Actiehouders", <<"Actiehouder">>, actiehouderRows, meta)>>]

\* runPowerBiExport of the earlier revision up to its first await; the button
\* is disabled while !databaseFile || !overzichtFile || busyAction === 'powerbi'
RunPowerBiExport ==
    /\ rev = "earlier"
    /\ events > 0
    /\ databaseFile.present
    /\ overzichtFile.present
    /\ busyAction # "powerbi"
    /\ events' = events - 1
    /\ busyAction' = "powerbi"
    /\ logEntries' = addLog(logEntries, "PowerBI data voorbereiden gestart.", "info")
    /\ runs' = Append(runs, NewRun("powerbi", "readDatabase"))
    /\ audit' = NoAudit
    /\ UNCHANGED <<rev, dashboardFile, emailDraft, lastEmailStation, activePanel,
                   station, passes, overzichtFile, databaseFile, achterstalligRows, conceptRows,
                   actiehouders, powerBiReady, powerBiStats, downloads>>

\* the message of the Error the try block of runPowerBiExport (earlier
\* revision) throws once both workbooks are read, "" if it throws none
PowerBiExportError(db, ov) ==
    IF ~ov.readable THEN ReadErrorMessage
    ELSE IF Len(DatabaseContent(db)) < 2 \/ Len(Content(ov)) < 2
    THEN "Niet genoeg rijen om data te kopieren."
    ELSE ""

\* How runPowerBiExport (earlier revision) ends: XLSX.writeFile,
\* setPowerBiReady(true) and the log entry, or the catch block; then finally.
PowerBiExportSettle(i, error, clock) ==
    /\ downloads' = IF error = ""
                    THEN Append(downloads,
                                Transcription(runs[i].db, runs[i].file,
                                              runs[i].station, clock))
                    ELSE downloads
    /\ powerBiReady' = IF error = "" THEN TRUE ELSE powerBiReady
    /\ logEntries' = IF error = ""
                     THEN addLog(logEntries, "PowerBI export gedownload.", "info")
                     ELSE addLog(logEntries, error, "error")
    /\ busyAction' = ""
    /\ runs' = RemoveAt(runs, i)
    /\ audit' = [op |-> "transcription", error |-> error, file |-> runs[i].file,
                 before |-> Snapshot, start |-> runs[i].start]

\* runPowerBiExport (earlier revision) from the return of
\* readWorkbook(databaseFile) on, up to readWorkbook(overzichtFile)
PowerBiExportReadDatabase(i) ==
    /\ runs[i].op = "powerbi"
    /\ runs[i].pc = "readDatabase"
    /\ IF runs[i].db.readable
       THEN /\ runs' = [runs EXCEPT ![i].pc = "readOverzicht"]
            /\ audit' = NoAudit
            /\ UNCHANGED <<busyAction, logEntries, powerBiReady, downloads>>
       ELSE PowerBiExportSettle(i, ReadErrorMessage, <<>>)
    /\ UNCHANGED <<rev, dashboardFile, emailDraft, lastEmailStation, activePanel,
                   station, passes, overzichtFile, databaseFile, achterstalligRows, conceptRows,
                   actiehouders, powerBiStats, events>>

\* runPowerBiExport (earlier revision) from the return of
\* readWorkbook(overzichtFile) on
PowerBiExportResume(i) ==
    /\ runs[i].op = "powerbi"
    /\ runs[i].pc = "readOverzicht"
    /\ \E clock \in Clocks(Max(Len(Content(runs[i].file)) - 1, 0)) :
        PowerBiExportSettle(i, PowerBiExportError(runs[i].db, runs[i].file), clock)
    /\ UNCHANGED <<rev, dashboardFile, emailDraft, lastEmailStation, activePanel,
                   station, passes, overzichtFile, databaseFile, achterstalligRows, conceptRows,
                   actiehouders, powerBiStats, events>>

\* the three lists are all empty
NothingToExport == achterstalligRows = <<>> /\ conceptRows = <<>> /\ actiehouders = <<>>

\* downloadDashboardExport up to await workbook.xlsx.writeBuffer(), the
\* workbook being built from the lists, the station label and the instant of
\* the click; the later revision disables the button while there is nothing to
\* export
DownloadDashboardExport ==
    /\ events > 0
    /\ rev = "later" => ~NothingToExport
    /\ events' = events - 1
    /\ logEntries' = IF NothingToExport
                     THEN addLog(logEntries, "Geen data om te exporteren.", "error")
                     ELSE logEntries
    /\ \E now \in Nows :
        runs' = IF NothingToExport THEN runs
                ELSE Append(runs, [NewRun("report", "writeBuffer") EXCEPT !.now = now])
    /\ audit' = IF NothingToExport
                THEN [op |-> "report", error |-> "Geen data om te exporteren.",
                      before |-> Snapshot]
                ELSE NoAudit
    /\ UNCHANGED <<rev, dashboardFile, emailDraft, lastEmailStation, activePanel,
                   station, passes, overzichtFile, databaseFile, busyAction, achterstalligRows,
                   conceptRows, actiehouders, powerBiReady, powerBiStats, downloads>>

\* downloadDashboardExport from the return of writeBuffer on: the workbook built
\* from the lists of the click is downloaded
DashboardExportResume(i) ==
    /\ runs[i].op = "report"
    /\ runs[i].pc = "writeBuffer"
    /\ downloads' = Append(downloads,
                           Report(runs[i].start, runs[i].station, runs[i].now))
    /\ logEntries' = addLog(logEntries, "Dashboard export gedownload", "info")
    /\ runs' = RemoveAt(runs, i)
    /\ audit' = [op |-> "report", error |-> "", before |-> Snapshot,
                 start |-> runs[i].start]
    /\ UNCHANGED <<rev, dashboardFile, emailDraft, lastEmailStation, activePanel,
                   station, passes, overzichtFile, databaseFile, busyAction, achterstalligRows,
                   conceptRows, actiehouders, powerBiReady, powerBiStats, events>>

---------------------------------------------------------------------------
(* Specifications                                                          *)

MaxEvents == 4

\* the overview files the user can select in the main specification: no file,
\* a file that is no workbook, an empty sheet, a header without rows, two good
\* sheets, a sheet without 'Datum klaar' and a sheet without 'Code'
Files ==
    {NoFile, UnreadableFile, EmptySheetFile, FileOf(FullHeaderId, <<>>),
     FileOf(FullHeaderId, <<BaseRow>>),
     FileOf(LooseHeaderId, <<ConceptRow, LateRow>>),
     FileOf(HeaderWithoutId(11), <<BaseRow, LateRow>>),
     FileOf(HeaderWithoutId(1), <<BaseRow>>)}

\* the database files the user can select: a file that is no workbook, a sheet
\* with its title row alone, a sheet with a header and one data row
DatabaseFiles ==
    {UnreadableFile, FileOf(1, <<>>), FileOf(2, <<BaseRow>>)}

\* the station labels the user can type
T_Utrecht == <<"U", "t", "r", "e", "c", "h", "t">>
Stations == {<<>>, T_Utrecht}

Init == InitWith(NoFile, MaxEvents)

Next ==
    \/ \E f \in Files : SelectOverzicht(f)
    \/ \E f \in DatabaseFiles : SelectDatabase(f)
    \/ \E text \in Stations : SetStation(text)
    \/ Verversen
    \/ RunDataOphalen
    \/ \E i \in DOMAIN runs : DataOphalenResume(i)
    \/ \E i \in DOMAIN runs : PowerBiResume(i)
    \/ RunPowerBiExport
    \/ \E i \in DOMAIN runs : PowerBiExportReadDatabase(i)
    \/ \E i \in DOMAIN runs : PowerBiExportResume(i)
    \/ DownloadDashboardExport
    \/ \E i \in DOMAIN runs : DashboardExportResume(i)

Spec == Init /\ [][Next]_vars

---------------------------------------------------------------------------
(* The overview pass as a function of the sheet: one click on 'Data        *)
(* ophalen' with a sheet drawn from a bounded family                       *)

MaxRows == 2

\* every planned-date cell, in a row that is Vigerend and has a holder
PlannedSweep == {[BaseRow EXCEPT !.planned = p] : p \in DOMAIN PlannedCells}

\* rows that differ in Status (2), Status, holder and code; all planned yesterday
StatusSweep ==
    {[BaseRow EXCEPT !.status2 = 2, !.actiehouder = 2, !.status = 2, !.opsteller = 2],
     [BaseRow EXCEPT !.status2 = 3, !.status = 2, !.opsteller = 2],
     [BaseRow EXCEPT !.status2 = 4, !.status = 2, !.actiehouder = 3, !.code = 2],
     [BaseRow EXCEPT !.actiehouder = 3],
     [BaseRow EXCEPT !.actiehouder = 4, !.status = 2, !.code = 2],
     [BaseRow EXCEPT !.actiehouder = 2, !.code = 2, !.planned = 12]}

OverviewRowIds == PlannedSweep \cup StatusSweep

SeqsUpTo(S, n) == UNION {[1..k -> S] : k \in 0..n}

\* Every sequence of rows under the full header; the rows of StatusSweep under
\* the loose header and under the headers without the Status column and
\* without the Opsteller column.
OverviewFiles ==
    {FileOf(FullHeaderId, rows) : rows \in SeqsUpTo(OverviewRowIds, MaxRows)}
    \cup {FileOf(h, rows) : h \in {LooseHeaderId, HeaderWithoutId(6), HeaderWithoutId(8)},
                            rows \in SeqsUpTo(StatusSweep, MaxRows)}

InitOverview == \E f \in OverviewFiles : InitWith(f, 1)

\* one 'Data ophalen': the click and the steps of the run
NextRun ==
    \/ RunDataOphalen
    \/ \E i \in DOMAIN runs : DataOphalenResume(i)
    \/ \E i \in DOMAIN runs : PowerBiResume(i)

SpecOverview == InitOverview /\ [][NextRun]_vars

\* the last step was an overview pass that threw nothing
OverviewDone == audit.op = "overview" /\ audit.error = ""

---------------------------------------------------------------------------
(* C1 *)

\* C1: for every planned date and every 'now', the remark of a scanned row is
\* exactly one of four: 'Geen datum' (NoDate) when the planned date is null,
\* 'Deadline verlopen' (Overdue) when planned < now, 'Deadline verloopt binnen
\* 31 dagen' (DueSoon) when now <= planned <= now + 31 days, 'Geen actie
\* vereist' (NoActionNeeded) otherwise; planned = now - 1 day gives Overdue,
\* planned = now + 31 days gives DueSoon, planned = now + 32 days gives
\* NoActionNeeded.
C1_DeadlineClassification ==
    OverviewDone =>
        \A i \in DOMAIN audit.scan :
            LET planned == audit.scan[i].geplandeDatum
                remark  == audit.scan[i].opmerking
                now     == audit.now
                day     == 24
            IN  /\ remark \in {"Geen datum", "Deadline verlopen",
                               "Deadline verloopt binnen 31 dagen", "Geen actie vereist"}
                /\ (remark = "Geen datum") <=> (planned = Null)
                /\ planned # Null =>
                    /\ (remark = "Deadline verlopen") <=> (planned.n < now)
                    /\ (remark = "Deadline verloopt binnen 31 dagen")
                        <=> (now <= planned.n /\ planned.n <= now + 31 * day)
                    /\ (remark = "Geen actie vereist") <=> (planned.n > now + 31 * day)
                    /\ planned.n = now - day => remark = "Deadline verlopen"
                    /\ planned.n = now + 31 * day
                        => remark = "Deadline verloopt binnen 31 dagen"
                    /\ planned.n = now + 32 * day => remark = "Geen actie vereist"

\* a pass has scanned a row planned exactly 31 days after 'now', one planned a
\* day before it and one planned 32 days after it is reachable too
C1_Witness ==
    /\ OverviewDone
    /\ Len(audit.scan) = 2
    /\ audit.scan[1].geplandeDatum # Null
    /\ audit.scan[1].geplandeDatum.n = audit.now + 31 * 24
    /\ audit.scan[1].opmerking = "Deadline verloopt binnen 31 dagen"
    /\ audit.scan[2].geplandeDatum # Null
    /\ audit.scan[2].geplandeDatum.n = audit.now + 32 * 24
    /\ audit.scan[2].opmerking = "Geen actie vereist"

---------------------------------------------------------------------------
(* What the claims say of a sheet is said of its rows by field: the cell   *)
(* of a data row in the column that holds a field, whatever the header     *)
(* cell of that column looks like.                                         *)

\* the sheet has a column for field k (a position of FullHeader)
HasField(file, k) ==
    \E i \in DOMAIN Headers[file.header] : Headers[file.header][i].field = k

\* the cell of data row j in the column of field k; none without that column
FieldCell(file, j, k) ==
    IF HasField(file, k) THEN FieldAt(file.rows[j], k) ELSE Undefined

\* the cell read as text, surrounding whitespace removed
FieldText(file, j, k) == trim(StringOf(FieldCell(file, j, k)))

\* the four-way rule of the remark
RemarkOf(planned, now) ==
    CASE planned = Null              -> "Geen datum"
      [] planned # Null /\ planned.n < now -> "Deadline verlopen"
      [] planned # Null /\ planned.n >= now /\ planned.n <= now + 31 * 24
                                     -> "Deadline verloopt binnen 31 dagen"
      [] OTHER                       -> "Geen actie vereist"

\* the Deviation Record of data row j; the holder as text without surrounding
\* whitespace (the earlier revision keeps the cell as it is)
DeviationOf(file, j, now) ==
    [code          |-> FieldCell(file, j, 1),
     titel         |-> FieldCell(file, j, 2),
     maatregelCode |-> FieldCell(file, j, 3),
     maatregel     |-> FieldCell(file, j, 4),
     status        |-> Str(T_Vigerend),
     actiehouder   |-> Str(FieldText(file, j, 7)),
     geplandeDatum |-> parseExcelDate(FieldCell(file, j, 9)),
     opmerking     |-> RemarkOf(parseExcelDate(FieldCell(file, j, 9)), now)]

HolderTrimmed(record) ==
    [record EXCEPT !.actiehouder = Str(trim(StringOf(record.actiehouder)))]

\* row j is to become a Deviation Record: Status (2) is 'Vigerend', the remark
\* is not 'Geen actie vereist' and, in the later revision, the holder is not
\* empty after trimming
YieldsDeviation(file, j, now) ==
    /\ FieldText(file, j, 5) = T_Vigerend
    /\ RemarkOf(parseExcelDate(FieldCell(file, j, 9)), now) # "Geen actie vereist"
    /\ (rev = "later" => FieldText(file, j, 7) # <<>>)

---------------------------------------------------------------------------
(* C8 *)

\* C8: after a successful overview ingestion the published Deviation Records
\* hold exactly one record for each scanned row whose Status (2) is 'Vigerend'
\* and whose remark is not 'Geen actie vereist' (later revision: and whose
\* holder is non-empty after trimming) and no record for any other row; the one
\* row ['D1','Leak','M1','Fix pipe','Vigerend','Vigerend','Alice','', yesterday]
\* yields exactly one record, with remark 'Deadline verlopen'.
C8_DeviationRecords ==
    OverviewDone =>
        LET file == audit.file
            now  == audit.now
            hits == {j \in DOMAIN file.rows : YieldsDeviation(file, j, now)}
        IN  /\ Len(achterstalligRows) = Cardinality(hits)
            /\ \A j \in hits :
                Cardinality({i \in DOMAIN achterstalligRows :
                                HolderTrimmed(achterstalligRows[i])
                                    = DeviationOf(file, j, now)})
                = Cardinality({k \in hits :
                                DeviationOf(file, k, now) = DeviationOf(file, j, now)})
            /\ file = FileOf(FullHeaderId, <<BaseRow>>) =>
                /\ Len(achterstalligRows) = 1
                /\ achterstalligRows[1].opmerking = "Deadline verlopen"

\* a pass over two rows has published the record of the first and none for the
\* second, which is Vigerend and planned 32 days ahead
C8_Witness ==
    /\ OverviewDone
    /\ audit.now = Now0
    /\ audit.file = FileOf(FullHeaderId, <<BaseRow, [BaseRow EXCEPT !.planned = 7]>>)
    /\ Len(achterstalligRows) = 1
    /\ achterstalligRows[1].opmerking = "Deadline verlopen"

---------------------------------------------------------------------------
(* C9 *)

\* the Concept Record of data row j
ConceptOf(file, j) ==
    [code          |-> FieldCell(file, j, 1),
     titel         |-> FieldCell(file, j, 2),
     status        |-> Str(T_Concept),
     opsteller     |-> FieldCell(file, j, 8),
     geplandeDatum |-> parseExcelDate(FieldCell(file, j, 9))]

\* the published Concept Records hold exactly one record for each row of hits
ConceptRecordsAre(file, hits) ==
    /\ Len(conceptRows) = Cardinality(hits)
    /\ \A j \in hits :
        Cardinality({i \in DOMAIN conceptRows : conceptRows[i] = ConceptOf(file, j)})
        = Cardinality({k \in hits : ConceptOf(file, k) = ConceptOf(file, j)})

\* C9 as stated: a scanned row yields a Concept Record if and only if its
\* Status column is 'Concept', whatever other columns the header contains.
C9_Original ==
    OverviewDone =>
        ConceptRecordsAre(audit.file,
            {j \in DOMAIN audit.file.rows : FieldText(audit.file, j, 6) = T_Concept})

\* C9, amended: a scanned row yields a Concept Record if and only if its Status
\* column (not Status (2)) is 'Concept' and the header has an Opsteller column;
\* whether the row also yields a Deviation Record plays no part.
C9_ConceptRecords ==
    OverviewDone =>
        ConceptRecordsAre(audit.file,
            {j \in DOMAIN audit.file.rows :
                FieldText(audit.file, j, 6) = T_Concept /\ HasField(audit.file, 8)})

\* one row has yielded both a Deviation Record and a Concept Record, the other
\* row of the sheet neither
C9_Witness ==
    /\ OverviewDone
    /\ Len(audit.file.rows) = 2
    /\ Len(conceptRows) = 1
    /\ Len(achterstalligRows) = 1
    /\ FieldText(audit.file, 1, 6) = T_Concept
    /\ YieldsDeviation(audit.file, 1, audit.now)
    /\ FieldText(audit.file, 2, 6) # T_Concept
    /\ ~YieldsDeviation(audit.file, 2, audit.now)

---------------------------------------------------------------------------
(* C10 *)

\* C10: after every successful overview ingestion the published Action Holder
\* Set is exactly the set of the non-empty holder values of the published
\* Deviation Records: no name twice, no empty name, no holder of a row that did
\* not become a Deviation Record, and the names in ascending order.
C10_ActionHolderSet ==
    OverviewDone =>
        /\ {actiehouders[i] : i \in DOMAIN actiehouders}
            = {StringOf(achterstalligRows[i].actiehouder) : i \in DOMAIN achterstalligRows}
                \ {<<>>}
        /\ \A i, j \in DOMAIN actiehouders : i # j => actiehouders[i] # actiehouders[j]
        /\ \A i \in DOMAIN actiehouders : actiehouders[i] # <<>>
        /\ \A i, j \in DOMAIN actiehouders :
            i < j => localeCompare(actiehouders[i], actiehouders[j]) <= 0

\* two Deviation Records of the same holder have been published: the set
\* holds the one name once
C10_Witness ==
    /\ OverviewDone
    /\ Len(achterstalligRows) = 2
    /\ StringOf(achterstalligRows[1].actiehouder) = StringOf(achterstalligRows[2].actiehouder)
    /\ actiehouders = <<StringOf(achterstalligRows[1].actiehouder)>>

---------------------------------------------------------------------------
(* The statistics pass as a function of the sheet: one click on 'Data      *)
(* ophalen' in the later revision, with a sheet drawn from a bounded       *)
(* family                                                                  *)

\* a handled measure that needed measures, planned on RefDay and finished 30
\* hours later; its assessment and its Status (2) vary
FilterSweep ==
    {[LateRow EXCEPT !.beoordeling = b] : b \in DOMAIN BeoordelingCells}
    \cup {[LateRow EXCEPT !.status2 = 1], [LateRow EXCEPT !.beoordeling = 3, !.status2 = 2]}

\* rows that pass the filter; their planned date, done date and discipline vary
DateSweep ==
    {[LateRow EXCEPT !.done = d] : d \in DOMAIN DoneCells}
    \cup {[LateRow EXCEPT !.planned = 8, !.done = 3],
          [LateRow EXCEPT !.planned = 10, !.done = 3, !.code = 2],
          [LateRow EXCEPT !.planned = 13, !.done = 1],
          [LateRow EXCEPT !.discipline = 3, !.code = 2],
          [LateRow EXCEPT !.discipline = 1, !.done = 7]}

StatsRowIds == FilterSweep \cup DateSweep

\* the full header, the loose one and the header without the column
\* Veroorzakende Discipline
StatsFiles ==
    {FileOf(h, rows) : h \in {FullHeaderId, LooseHeaderId, HeaderWithoutId(12)},
                       rows \in SeqsUpTo(StatsRowIds, MaxRows)}

InitStats == rev = "later" /\ \E f \in StatsFiles : InitWith(f, 1)

SpecStats == InitStats /\ [][NextRun]_vars

\* the last step was a statistics pass that threw nothing
StatsDone == audit.op = "stats" /\ audit.error = ""

\* row j passes the double filter: its assessment is 'Maatregelen nodig' and its
\* Status (2) is 'Afgehandeld', both read without regard to case and to
\* surrounding whitespace
InFilter(file, j) ==
    /\ toLowerCase(FieldText(file, j, 10)) = toLowerCase(T_MaatregelenNodig)
    /\ toLowerCase(FieldText(file, j, 5)) = toLowerCase(T_Afgehandeld)

PlannedOf(file, j) == parseExcelDate(FieldCell(file, j, 9))
DoneOf(file, j) == parseExcelDate(FieldCell(file, j, 11))

\* what a bucket holds for data row j
PayloadOf(file, j) ==
    [code          |-> FieldCell(file, j, 1),
     titel         |-> FieldCell(file, j, 2),
     maatregel     |-> Str(FieldText(file, j, 4)),
     actiehouder   |-> Str(FieldText(file, j, 7)),
     geplandeDatum |-> PlannedOf(file, j),
     datumKlaar    |-> DoneOf(file, j)]

Holds(list, x) == \E i \in DOMAIN list : list[i] = x
Times(list, x) == Cardinality({i \in DOMAIN list : list[i] = x})

---------------------------------------------------------------------------
(* C2 *)

\* C2: in the statistics pass every row that passes the filter is classified
\* MissingDates (missingRows) if its planned date or its done date is null, Late
\* (lateRows) if doneDate > plannedDate, and OnTime (onTimeRows) otherwise; a row
\* whose done date equals its planned date is OnTime, never Late.
C2_CompletionClassification ==
    StatsDone =>
        \A j \in DOMAIN audit.file.rows :
            InFilter(audit.file, j) =>
                LET planned == PlannedOf(audit.file, j)
                    done    == DoneOf(audit.file, j)
                    x       == PayloadOf(audit.file, j)
                    missing == planned = Null \/ done = Null
                    late    == ~missing /\ done.n > planned.n
                IN  /\ Holds(powerBiStats.missingRows, x) <=> missing
                    /\ Holds(powerBiStats.lateRows, x) <=> late
                    /\ Holds(powerBiStats.onTimeRows, x) <=> (~missing /\ ~late)
                    /\ (~missing /\ done.n = planned.n) =>
                        /\ Holds(powerBiStats.onTimeRows, x)
                        /\ ~Holds(powerBiStats.lateRows, x)

\* a pass has put a row whose done date equals its planned date with the rows
\* on time, and a row finished an hour later with the late rows
C2_Witness ==
    /\ StatsDone
    /\ Len(audit.file.rows) = 2
    /\ InFilter(audit.file, 1) /\ InFilter(audit.file, 2)
    /\ PlannedOf(audit.file, 1) # Null
    /\ DoneOf(audit.file, 1) = PlannedOf(audit.file, 1)
    /\ powerBiStats.onTimeRows = <<PayloadOf(audit.file, 1)>>
    /\ DoneOf(audit.file, 2) # Null
    /\ DoneOf(audit.file, 2).n = PlannedOf(audit.file, 2).n + 1
    /\ powerBiStats.lateRows = <<PayloadOf(audit.file, 2)>>

---------------------------------------------------------------------------
(* C4 *)

\* C4: after every successful statistics pass each row that passes the double
\* filter is in exactly one of onTimeRows, lateRows, missingRows and the rows
\* that fail the filter are in none; totalFiltered = validDates + missingDates,
\* overdueCount = |lateRows|, validDates - overdueCount = |onTimeRows|,
\* missingDates = |missingRows|.
C4_BucketsAndCounters ==
    StatsDone =>
        LET file    == audit.file
            passing == {j \in DOMAIN file.rows : InFilter(file, j)}
            buckets == powerBiStats.onTimeRows \o powerBiStats.lateRows
                        \o powerBiStats.missingRows
        IN  /\ Len(buckets) = Cardinality(passing)
            /\ \A j \in passing :
                Times(buckets, PayloadOf(file, j))
                = Cardinality({k \in passing : PayloadOf(file, k) = PayloadOf(file, j)})
            /\ powerBiStats.totalFiltered = Cardinality(passing)
            /\ powerBiStats.totalFiltered
                = powerBiStats.validDates + powerBiStats.missingDates
            /\ powerBiStats.overdueCount = Len(powerBiStats.lateRows)
            /\ powerBiStats.validDates - powerBiStats.overdueCount
                = Len(powerBiStats.onTimeRows)
            /\ powerBiStats.missingDates = Len(powerBiStats.missingRows)

\* a pass over a row that passes the filter and a row that fails it on its
\* Status (2) alone has counted and bucketed the first only
C4_Witness ==
    /\ StatsDone
    /\ Len(audit.file.rows) = 2
    /\ InFilter(audit.file, 1)
    /\ ~InFilter(audit.file, 2)
    /\ toLowerCase(FieldText(audit.file, 2, 10)) = toLowerCase(T_MaatregelenNodig)
    /\ powerBiStats.totalFiltered = 1
    /\ powerBiStats.lateRows = <<PayloadOf(audit.file, 1)>>
    /\ powerBiStats.onTimeRows = <<>>
    /\ powerBiStats.missingRows = <<>>

---------------------------------------------------------------------------
(* The statistics of sheets of late rows and rows on time                  *)

MaxCount == 20

\* the same measure finished on its planned date
OnTimeRow == [LateRow EXCEPT !.done = 3]

\* late late rows followed by onTime rows on time
CountedRows(late, onTime) ==
    [i \in 1..(late + onTime) |-> IF i <= late THEN LateRow ELSE OnTimeRow]

TrafficFiles ==
    {FileOf(FullHeaderId, CountedRows(late, onTime)) :
        late \in 0..MaxCount, onTime \in 0..MaxCount}

InitTraffic ==
    /\ rev = "later"
    /\ \E f \in TrafficFiles : Len(f.rows) <= MaxCount /\ InitWith(f, 1)

SpecTraffic == InitTraffic /\ [][NextRun]_vars

---------------------------------------------------------------------------
(* C3 *)

\* C3: the traffic light published with the statistics is 'red' when
\* onTimePercent <= 35, 'orange' when 35 < onTimePercent < 75 and 'green' when
\* onTimePercent >= 75, for every pair of counters validDates, overdueCount with
\* overdueCount <= validDates, onTimePercent being the share of validDates that
\* is not overdue, times 100 (0 without valid dates); exactly 35 gives 'red' and
\* exactly 75 gives 'green'.
C3_TrafficLight ==
    StatsDone =>
        LET valid   == powerBiStats.validDates
            onTime  == powerBiStats.validDates - powerBiStats.overdueCount
            percent == powerBiStats.onTimePercent
            \* onTimePercent compared with a whole number p
            AtMost(p)   == IF valid = 0 THEN 0 <= p ELSE onTime * 100 <= p * valid
            AtLeast(p)  == IF valid = 0 THEN 0 >= p ELSE onTime * 100 >= p * valid
        IN  /\ powerBiStats.overdueCount <= valid
            /\ percent.num * (IF valid = 0 THEN 1 ELSE valid)
                = (IF valid = 0 THEN 0 ELSE onTime * 100) * percent.den
            /\ powerBiStats.traffic = "red" <=> AtMost(35)
            /\ powerBiStats.traffic = "orange" <=> (~AtMost(35) /\ ~AtLeast(75))
            /\ powerBiStats.traffic = "green" <=> AtLeast(75)
            /\ (valid > 0 /\ onTime * 100 = 35 * valid) => powerBiStats.traffic = "red"
            /\ (valid > 0 /\ onTime * 100 = 75 * valid) => powerBiStats.traffic = "green"

\* 7 of 20 valid rows on time, exactly 35 percent: red
C3_Witness ==
    /\ StatsDone
    /\ powerBiStats.validDates = 20
    /\ powerBiStats.overdueCount = 13
    /\ powerBiStats.traffic = "red"

---------------------------------------------------------------------------
(* Required columns: runs on sheets whose header lacks one label, after a  *)
(* run that has published the records of a good sheet                      *)

GoodFile == FileOf(FullHeaderId, <<BaseRow, ConceptRow>>)

\* the full header, the loose header and every header without one column, over
\* a sheet of one row and a sheet of two
ColumnFiles ==
    {FileOf(h, rows) :
        h \in {FullHeaderId, LooseHeaderId} \cup {HeaderWithoutId(k) : k \in DOMAIN FullHeader},
        rows \in {<<BaseRow>>, <<ConceptRow, LateRow>>}}

\* the user events of a run of this specification: a click on the good sheet,
\* the choice of another sheet, a click
ColumnEvents == 3

InitColumns == InitWith(GoodFile, ColumnEvents)

NextColumns ==
    \/ \E f \in ColumnFiles : SelectOverzicht(f)
    \/ RunDataOphalen
    \/ \E i \in DOMAIN runs : DataOphalenResume(i)
    \/ \E i \in DOMAIN runs : PowerBiResume(i)

SpecColumns == InitColumns /\ [][NextColumns]_vars

\* the sheet of the last pass has a header row and at least one data row
SheetWithRows == audit.file.readable /\ audit.file.header # 0 /\ audit.file.rows # <<>>

\* the header of the last pass lacks the column of one of the fields
Lacks(fields) == \E k \in fields : ~HasField(audit.file, k)

\* the step has left the three published lists as they were
ListsKept ==
    /\ achterstalligRows = audit.before.achterstalligRows
    /\ conceptRows = audit.before.conceptRows
    /\ actiehouders = audit.before.actiehouders

---------------------------------------------------------------------------
(* C5 *)

\* C5 as stated: an ingestion pass fails with 'Kolomkoppen ontbreken ...'
\* (MissingColumns) and publishes no records whenever one of its required
\* labels is absent from the header row; the overview pass requires Code, Titel,
\* Code (2), Maatregel, Status (2), Status, Actiehouder, Opsteller and Geplande
\* datum klaar, the statistics pass additionally Maatregelen beoordeling, Datum
\* klaar and Veroorzakende Discipline.
C5_Original ==
    /\ (audit.op = "overview" /\ SheetWithRows /\ Lacks(1..9)) =>
        (audit.error = "Kolomkoppen ontbreken in overzicht." /\ ListsKept)
    /\ (audit.op = "stats" /\ SheetWithRows /\ Lacks(1..12)) =>
        (audit.error = "Kolomkoppen ontbreken in overzicht voor PowerBI."
         /\ powerBiStats = Null)

\* C5, amended: the overview pass fails with MissingColumns, and leaves the
\* published lists as they were, exactly when the header lacks one of Code,
\* Titel, Code (2), Maatregel, Status (2), Actiehouder, Geplande datum klaar;
\* the statistics pass fails with MissingColumns, and publishes no statistics,
\* exactly when the header lacks one of Maatregelen beoordeling, Status (2),
\* Geplande datum klaar, Datum klaar.  The absence of Status, of Opsteller or of
\* Veroorzakende Discipline fails neither pass.
C5_MissingColumns ==
    /\ (audit.op = "overview" /\ SheetWithRows) =>
        /\ (audit.error = "Kolomkoppen ontbreken in overzicht.")
            <=> Lacks({1, 2, 3, 4, 5, 7, 9})
        /\ Lacks({1, 2, 3, 4, 5, 7, 9}) => ListsKept
        /\ ~Lacks({1, 2, 3, 4, 5, 7, 9}) => audit.error = ""
    /\ (audit.op = "stats" /\ SheetWithRows) =>
        /\ (audit.error = "Kolomkoppen ontbreken in overzicht voor PowerBI.")
            <=> Lacks({10, 5, 9, 11})
        /\ Lacks({10, 5, 9, 11}) => (powerBiStats = Null /\ ~powerBiReady)
        /\ ~Lacks({10, 5, 9, 11}) => (audit.error = "" /\ powerBiStats # Null)

\* an overview pass on a sheet without 'Geplande datum klaar' has failed, and
\* the records published before are still there
C5_Witness ==
    /\ audit.op = "overview"
    /\ ~HasField(audit.file, 9)
    /\ audit.error = "Kolomkoppen ontbreken in overzicht."
    /\ Len(achterstalligRows) = 1
    /\ Len(conceptRows) = 1

---------------------------------------------------------------------------
(* C6 *)

\* C6: an ingestion pass over a grid that has a header row but no data row
\* fails with 'Geen data gevonden in overzicht.' (EmptyInput) and publishes
\* nothing: the Deviation Records, Concept Records and Action Holder Set
\* published before are not replaced by empty ones.
C6_EmptyInput ==
    (/\ audit.op \in {"overview", "stats"}
     /\ audit.file.readable
     /\ audit.file.header # 0
     /\ audit.file.rows = <<>>)
    => (audit.error = "Geen data gevonden in overzicht." /\ ListsKept)

---------------------------------------------------------------------------
(* C7 *)

\* the last step was the end of an operation that failed
Failed(ops) == audit.op \in ops /\ audit.error # ""

\* C7 as stated: when an ingestion, statistics, transcription or report
\* operation fails, nothing of its output is applied and every published
\* result (Deviation Records, Concept Records, Action Holder Set, statistics,
\* ready flag) keeps its value; a failing statistics pass leaves the earlier
\* statistics in place, and one 'Data ophalen' never has published new records
\* when its statistics part fails.
C7_Original ==
    /\ Failed({"overview", "stats", "transcription", "report"}) => Snapshot = audit.before
    /\ Failed({"stats"}) => ~audit.applied

\* C7, amended: a failing overview pass, transcription or report applies
\* nothing, every published result keeps its value.  A failing statistics pass
\* leaves the Deviation Records, Concept Records and Action Holder Set as they
\* are, but clears the statistics and the ready flag, whatever they were; and
\* the 'Data ophalen' it is part of has by then published its records.
C7_FailureEffects ==
    /\ Failed({"overview", "transcription", "report"}) => Snapshot = audit.before
    /\ Failed({"stats"}) =>
        /\ ListsKept
        /\ powerBiStats = Null
        /\ ~powerBiReady
        /\ audit.applied

\* a statistics pass has failed while the statistics of an earlier run were
\* published: they are gone, the records of the overview part are there
C7_Witness ==
    /\ Failed({"stats"})
    /\ audit.before.powerBiStats # Null
    /\ audit.before.powerBiReady
    /\ powerBiStats = Null
    /\ achterstalligRows # <<>>

---------------------------------------------------------------------------
(* The order of the published records: one click on 'Data ophalen' with a  *)
(* sheet whose rows differ in code and in planned date                     *)

SortRows == 3

\* rows with the codes B2, A10 and A2, planned yesterday or not at all; each is
\* Vigerend with Status 'Concept', so it yields a record of either kind
CodeSweep ==
    {[BaseRow EXCEPT !.code = c, !.planned = p, !.status = 2, !.opsteller = 2] :
        c \in {3, 4, 5}, p \in {1, 8}}

SortFiles == {FileOf(FullHeaderId, rows) : rows \in SeqsUpTo(CodeSweep, SortRows)}

InitSort == \E f \in SortFiles : InitWith(f, 1)

SpecSort == InitSort /\ [][NextRun]_vars

\* list holds the records recs (one for each row of the sheet, in row order) in
\* ascending order of code, the records of equal code in the order of their rows
SortedStably(list, recs) ==
    /\ Len(list) = Len(recs)
    /\ \E p \in [DOMAIN recs -> DOMAIN recs] :
        /\ \A i, j \in DOMAIN recs : i # j => p[i] # p[j]
        /\ \A i \in DOMAIN recs : list[i] = recs[p[i]]
        /\ \A i, j \in DOMAIN recs :
            i < j =>
                LET c == localeCompare(StringOf(list[i].code), StringOf(list[j].code))
                IN  c < 0 \/ (c = 0 /\ p[i] < p[j])

---------------------------------------------------------------------------
(* C11 *)

\* C11: the published Deviation Records and the published Concept Records are
\* each in ascending order of their code compared as strings, and records with
\* equal codes keep their relative scan order; rows with the codes B2, A10, A2
\* come out as A10, A2, B2.
C11_SortedByCode ==
    OverviewDone =>
        LET file == audit.file
            n    == Len(file.rows)
        IN  /\ SortedStably(achterstalligRows,
                             [j \in 1..n |-> DeviationOf(file, j, audit.now)])
            /\ SortedStably(conceptRows, [j \in 1..n |-> ConceptOf(file, j)])
            /\ (n = 3 /\ \A j \in 1..3 : file.rows[j].code = j + 2) =>
                /\ [i \in 1..3 |-> StringOf(achterstalligRows[i].code)]
                    = << <<"A", "1", "0">>, <<"A", "2">>, <<"B", "2">> >>
                /\ [i \in 1..3 |-> StringOf(conceptRows[i].code)]
                    = << <<"A", "1", "0">>, <<"A", "2">>, <<"B", "2">> >>

\* the rows B2 (no date), A10, B2 (planned yesterday) have been published as
\* A10, B2 (no date), B2 (planned yesterday)
C11_Witness ==
    /\ OverviewDone
    /\ Len(audit.file.rows) = 3
    /\ [j \in 1..3 |-> audit.file.rows[j].code] = <<3, 4, 3>>
    /\ [j \in 1..3 |-> audit.file.rows[j].planned] = <<8, 1, 1>>
    /\ [i \in 1..3 |-> achterstalligRows[i].opmerking]
        = <<"Deadline verlopen", "Geen datum", "Deadline verlopen">>
    /\ [i \in 1..3 |-> StringOf(conceptRows[i].code)]
        = << <<"A", "1", "0">>, <<"B", "2">>, <<"B", "2">> >>
    /\ conceptRows[2].geplandeDatum = Null

---------------------------------------------------------------------------
(* getColumnIndex as a function of the header row and the name: a header   *)
(* row drawn from a bounded family, and one lookup after the other         *)

MaxHeaderLen == 3
MaxLookups == 2

\* header cells and names: 'Code' and 'Status' as the code writes them, in
\* other case, with surrounding blanks, and the labels that contain them
LookupTexts ==
    {L_Code, <<"c", "o", "d", "e">>, <<" ", " ">> \o L_Code \o <<" ">>,
     L_Code2, L_Status, L_Status2, <<"S", "T", "A", "T", "U", "S", " ">>, <<>>}

LookupHeaders == SeqsUpTo(LookupTexts, MaxHeaderLen)

\* the header row is in audit; nothing else has happened
InitLookup ==
    /\ rev \in {"earlier", "later"}
    /\ overzichtFile = NoFile
    /\ databaseFile = NoFile
    /\ station = <<>>
    /\ dashboardFile = NoFile
    /\ emailDraft = Null
    /\ lastEmailStation = <<>>
    /\ activePanel = "results"
    /\ busyAction = ""
    /\ logEntries = <<>>
    /\ achterstalligRows = <<>>
    /\ conceptRows = <<>>
    /\ actiehouders = <<>>
    /\ powerBiReady = FALSE
    /\ powerBiStats = Null
    /\ runs = <<>>
    /\ downloads = <<>>
    /\ events = MaxLookups
    /\ passes = {}
    /\ audit \in {[op |-> "headers", headers |-> h] : h \in LookupHeaders}

\* getColumnIndex(headers, name) is called and its result recorded
Lookup(name) ==
    /\ events > 0
    /\ audit.op \in {"headers", "lookup"}
    /\ events' = events - 1
    /\ audit' = [op |-> "lookup", headers |-> audit.headers, name |-> name,
                 index |-> getColumnIndex(audit.headers, name)]
    /\ UNCHANGED <<rev, dashboardFile, emailDraft, lastEmailStation, activePanel,
                   station, passes, overzichtFile, databaseFile, busyAction, logEntries,
                   achterstalligRows, conceptRows, actiehouders, powerBiReady,
                   powerBiStats, runs, downloads>>

NextLookup == \E name \in LookupTexts : Lookup(name)

SpecLookup == InitLookup /\ [][NextLookup]_vars

\* a text without its surrounding blanks, its letters in lower case
Folded(text) ==
    LET inked == {i \in DOMAIN text : text[i] # " "}
        first == CHOOSE i \in inked : \A j \in inked : i <= j
        last  == CHOOSE i \in inked : \A j \in inked : j <= i
    IN  IF inked = {} THEN <<>>
        ELSE [i \in 1..(last - first + 1) |->
                LET ch == text[first + i - 1]
                IN  IF ch \in UpperSet THEN LowerOfUpper[ch] ELSE ch]

---------------------------------------------------------------------------
(* C12 *)

\* C12: header lookup compares the trimmed, case-folded query with each
\* trimmed, case-folded header for exact equality and returns the index of the
\* first match or 'not found': '  Code ' and 'code' resolve to the same index
\* when the header contains 'Code', and 'Status' never resolves to a column
\* 'Status (2)' that merely contains it.
C12_HeaderLookup ==
    audit.op = "lookup" =>
        LET headers == audit.headers
            matches == {i \in DOMAIN headers : Folded(headers[i]) = Folded(audit.name)}
        IN  /\ matches = {} => audit.index = NotFound
            /\ matches # {} =>
                /\ audit.index \in matches
                /\ \A i \in matches : audit.index <= i
            /\ (\E i \in DOMAIN headers : headers[i] = L_Code) =>
                /\ getColumnIndex(headers, <<" ", " ">> \o L_Code \o <<" ">>)
                    = getColumnIndex(headers, <<"c", "o", "d", "e">>)
                /\ getColumnIndex(headers, <<"c", "o", "d", "e">>) # NotFound
            /\ (audit.name = L_Status /\ audit.index # NotFound) =>
                headers[audit.index] # L_Status2

\* 'Status' has been looked up in the header row 'Status (2)', ' code ', 'Code'
\* and not found; before that, 'code' was found at the second column
C12_Witness ==
    /\ audit.op = "lookup"
    /\ audit.headers = <<L_Status2, <<" ", " ">> \o L_Code \o <<" ">>, L_Code>>
    /\ audit.name = L_Status
    /\ audit.index = NotFound
    /\ getColumnIndex(audit.headers, <<"c", "o", "d", "e">>) = 2
    /\ events = 0

---------------------------------------------------------------------------
(* The transcription as a function of the two sheets and the station       *)
(* label: one click on 'PowerBI data' in the earlier revision              *)

MaxSourceRows == 5
MaxTargetRows == 4

\* the data rows of an overview: alternately the base row and a row with
\* another code, no holder and other dates
OtherRow == [LateRow EXCEPT !.code = 2, !.actiehouder = 3]
SourceRows(n) == [j \in 1..n |-> IF j % 2 = 1 THEN BaseRow ELSE OtherRow]

\* the data row a database holds before the transcription
StaleRow == [BaseRow EXCEPT !.code = 3, !.actiehouder = 2, !.planned = 14]

SourceFiles ==
    {FileOf(h, SourceRows(n)) :
        h \in {FullHeaderId, LooseHeaderId, TwiceCodeHeaderId, HeaderWithoutId(1)},
        n \in 0..MaxSourceRows}

TargetFiles ==
    {FileOf(1, <<>>)}
    \cup {FileOf(1 + h, [j \in 1..n |-> StaleRow]) :
            h \in DOMAIN DatabaseHeaders, n \in 0..MaxTargetRows}

InitTranscription ==
    /\ \E ov \in SourceFiles, db \in TargetFiles, label \in Stations :
        InitOf(ov, db, label, 1)
    /\ rev = "earlier"

NextTranscription ==
    \/ RunPowerBiExport
    \/ \E i \in DOMAIN runs : PowerBiExportReadDatabase(i)
    \/ \E i \in DOMAIN runs : PowerBiExportResume(i)

SpecTranscription == InitTranscription /\ [][NextTranscription]_vars

\* the last step was a transcription that threw nothing
TranscriptionDone == audit.op = "transcription" /\ audit.error = ""

\* What the claims say of a transcription is said of the download it made:
\* the source table, the target sheet before and the target sheet after.
Written == downloads[Len(downloads)]
SourceTable == Content(Written.ov)
TargetBefore == DatabaseSheet(Written.db)
TargetAfter == Written.sheet
SourceColumns == DOMAIN SourceTable[1]
TargetColumns == DOMAIN TargetBefore.cells[2]
SourceLabel(k) == Folded(StringOf(SourceTable[1][k]))
TargetLabel(c) == Folded(StringOf(TargetBefore.cells[2][c]))
sourceDataRowCount == Len(SourceTable) - 1
existingTargetDataRowCount == Len(TargetBefore.cells) - 2
ProcessedRows ==
    1..(IF sourceDataRowCount >= existingTargetDataRowCount
        THEN sourceDataRowCount ELSE existingTargetDataRowCount)

\* the cell of data row i (counted from 1) in column c; none where the sheet
\* holds no cell
CellOf(sheet, i, c) ==
    IF i + 2 \in DOMAIN sheet.cells /\ c \in DOMAIN sheet.cells[i + 2]
    THEN sheet.cells[i + 2][c] ELSE Undefined

\* a cell that shows nothing: an empty text, or no cell at all
IsBlank(cell) == cell = Undefined \/ (cell.t = "s" /\ cell.s = <<>>)

\* column c is one of the two synthetic columns
Synthetic(c) == TargetLabel(c) \in {Folded(T_DateExport), Folded(T_Station)}

\* the source columns that carry the label of target column c
SourcesOf(c) == {k \in SourceColumns : SourceLabel(k) = TargetLabel(c)}

\* column c of the target holds, in every processed row, the cell of a source
\* column of its label within the source's data range and nothing beyond it
HoldsSource(c) ==
    \A i \in ProcessedRows :
        IF i <= sourceDataRowCount
        THEN \E k \in SourcesOf(c) : CellOf(TargetAfter, i, c) = SourceTable[i + 1][k]
        ELSE IsBlank(CellOf(TargetAfter, i, c))

\* the number of data rows within the declared extent of the target
DataRowsAfter == TargetAfter.range.r - 1

---------------------------------------------------------------------------
(* C13 *)

---------------------------------------------------------------------------
(* C14 *)

---------------------------------------------------------------------------
(* C15 *)

\* the first target column with the label, 0 if there is none
FirstLabelled(text) ==
    LET hits == {c \in TargetColumns : TargetLabel(c) = Folded(text)}
    IN  IF hits = {} THEN 0 ELSE CHOOSE c \in hits : \A d \in hits : c <= d

---------------------------------------------------------------------------
(* C16 *)

\* the last row and the last column (counted from 0) that hold a cell
LastCellRow(sheet) ==
    LET inked == {i \in DOMAIN sheet.cells :
                    \E j \in DOMAIN sheet.cells[i] : sheet.cells[i][j] # Undefined}
    IN  (CHOOSE i \in inked : \A k \in inked : k <= i) - 1
LastHeaderColumn(sheet) == Len(sheet.cells[2]) - 1

\* C16: after a transcription the declared extent of the target sheet has its
\* last row >= its previous last row and >= the last written data row, and its
\* last column >= its previous last column and >= the last header column.
C16_ExtentWidened ==
    TranscriptionDone =>
        /\ TargetAfter.range.r >= TargetBefore.range.r
        /\ TargetAfter.range.r >= LastCellRow(TargetAfter)
        /\ TargetAfter.range.c >= TargetBefore.range.c
        /\ TargetAfter.range.c >= LastHeaderColumn(TargetAfter)

\* five source rows have been transcribed into a database without data rows:
\* the extent ends at the seventh row, where the last written cell is
C16_Witness ==
    /\ TranscriptionDone
    /\ sourceDataRowCount = 5
    /\ existingTargetDataRowCount = 0
    /\ TargetBefore.range.r = 1
    /\ TargetAfter.range.r = 6
    /\ LastCellRow(TargetAfter) = 6

---------------------------------------------------------------------------
(* C20 *)

\* C20: when the source header row contains the same normalized label more
\* than once, every target column with that label receives the values of the
\* first such source column.
C20_FirstOccurrenceWins ==
    TranscriptionDone =>
        \A c \in TargetColumns :
            (Cardinality(SourcesOf(c)) > 1 /\ TargetLabel(c) # <<>> /\ ~Synthetic(c)) =>
                LET first == CHOOSE k \in SourcesOf(c) : \A m \in SourcesOf(c) : k <= m
                IN  \A i \in 1..sourceDataRowCount :
                        CellOf(TargetAfter, i, c) = SourceTable[i + 1][first]

---------------------------------------------------------------------------
(* Rows whose date cells hold no date: one click on 'Data ophalen' with a  *)
(* sheet whose rows differ in their planned and done cells                 *)

MaxDateRows == 2

\* Vigerend rows planned yesterday, 'nnb', on serial -1, not at all and 32 days
\* ahead, one of them without holder; handled measures planned on RefDay or
\* 'nnb' and finished late, 'nnb' or not at all
DatelessSweep ==
    {[BaseRow EXCEPT !.planned = p] : p \in {1, 9, 13, 8, 7}}
    \cup {[BaseRow EXCEPT !.planned = 9, !.actiehouder = 3, !.code = 2]}
    \cup {[LateRow EXCEPT !.planned = p, !.done = d] : p \in {14, 9}, d \in {5, 6, 1}}

DateFiles == {FileOf(FullHeaderId, rows) : rows \in SeqsUpTo(DatelessSweep, MaxDateRows)}

InitDates == \E f \in DateFiles : InitWith(f, 1)

SpecDates == InitDates /\ [][NextRun]_vars

\* no date can be made of the cell: it is empty, a text that is no date, or a
\* serial number below the epoch
Dateless(cell) ==
    \/ cell.t = "u"
    \/ cell.t = "s" /\ cell.s \notin {T_Date1, Padded(T_Date1), T_Date2, Padded(T_Date2)}
    \/ cell.t = "n" /\ cell.n < 0

\* the file without its data row j
WithoutRow(file, j) == [file EXCEPT !.rows = RemoveAt(file.rows, j)]

---------------------------------------------------------------------------
(* C17 *)

\* C17: a row whose date cell cannot be parsed never aborts ingestion and is
\* never dropped for that reason.  In the overview pass it gets the remark
\* 'Geen datum' (NoDate) and, when it otherwise qualifies, is published as a
\* Deviation Record with that remark; in the statistics pass a filtered row
\* with an unparsable planned or done date is counted in missingDates and
\* placed in missingRows, and all other rows are processed as if it were
\* absent.
C17_UnparsableDates ==
    /\ audit.op \in {"overview", "stats"} => audit.error = ""
    /\ OverviewDone =>
        \A j \in DOMAIN audit.file.rows :
            Dateless(FieldCell(audit.file, j, 9)) =>
                /\ audit.scan[j].opmerking = "Geen datum"
                /\ (FieldText(audit.file, j, 5) = T_Vigerend
                    /\ (rev = "later" => FieldText(audit.file, j, 7) # <<>>))
                    => \E i \in DOMAIN achterstalligRows :
                        /\ achterstalligRows[i].opmerking = "Geen datum"
                        /\ achterstalligRows[i].code = FieldCell(audit.file, j, 1)
                        /\ achterstalligRows[i].geplandeDatum = Null
                        /\ StringOf(achterstalligRows[i].actiehouder)
                            = StringOf(FieldCell(audit.file, j, 7))
    /\ StatsDone =>
        \A j \in DOMAIN audit.file.rows :
            (InFilter(audit.file, j)
             /\ (Dateless(FieldCell(audit.file, j, 9))
                 \/ Dateless(FieldCell(audit.file, j, 11)))) =>
                LET other == StatsPass(WithoutRow(audit.file, j)).stats
                IN  /\ powerBiStats.missingDates = other.missingDates + 1
                    /\ powerBiStats.totalFiltered = other.totalFiltered + 1
                    /\ \E p \in DOMAIN powerBiStats.missingRows :
                        /\ powerBiStats.missingRows[p] = PayloadOf(audit.file, j)
                        /\ RemoveAt(powerBiStats.missingRows, p) = other.missingRows
                    /\ [powerBiStats EXCEPT !.missingDates = other.missingDates,
                                            !.totalFiltered = other.totalFiltered,
                                            !.missingRows = other.missingRows]
                        = other

\* a statistics pass over a late row and a filtered row planned 'nnb' has
\* counted one row of each kind; the overview pass before it published nothing
C17_Witness ==
    /\ StatsDone
    /\ audit.file.rows = <<LateRow, [LateRow EXCEPT !.planned = 9]>>
    /\ powerBiStats.missingDates = 1
    /\ powerBiStats.overdueCount = 1
    /\ Len(powerBiStats.missingRows) = 1
    /\ powerBiStats.missingRows[1].geplandeDatum = Null
    /\ powerBiStats.missingRows[1].datumKlaar # Null

---------------------------------------------------------------------------
(* The report as a function of the published lists: 'Data ophalen' on a    *)
(* sheet drawn from a bounded family, and 'Dashboard export'               *)

MaxReportRows == 2
ReportEvents == 2

ReportFiles ==
    {FileOf(FullHeaderId, rows) : rows \in SeqsUpTo(StatusSweep, MaxReportRows)}

InitReport ==
    \E f \in ReportFiles, label \in Stations : InitOf(f, NoFile, label, ReportEvents)

NextReport ==
    \/ NextRun
    \/ DownloadDashboardExport
    \/ \E i \in DOMAIN runs : DashboardExportResume(i)

SpecReport == InitReport /\ [][NextReport]_vars

\* the last step has handed a report to the browser
ReportDone == audit.op = "report" /\ audit.error = ""

\* the sheet has 3 metadata rows and then a table with its header on the 4th
\* row; the table has n rows for n > 0 records and one blank row for none
LaidOut(sheet, n, width) ==
    /\ Len(sheet.rows) = 3
    /\ \A k \in 1..3 : Len(sheet.rows[k]) = 2
    /\ sheet.table.ref = 4
    /\ Len(sheet.table.columns) = width
    /\ Len(sheet.table.rows) >= 1
    /\ n > 0 => Len(sheet.table.rows) = n
    /\ n = 0 => sheet.table.rows = <<[i \in 1..width |-> Str(<<>>)]>>
    /\ \A k \in DOMAIN sheet.table.rows : Len(sheet.table.rows[k]) = width

---------------------------------------------------------------------------
(* C18 *)

\* C18: every report that is produced has exactly three sheets (overdue
\* records, concept records, action holders), each with 3 metadata rows
\* followed by a table whose header is on the 4th row and which has at least
\* one data row: N rows for a record set of N > 0 records and exactly one blank
\* placeholder row for an empty record set.
C18_ReportLayout ==
    ReportDone =>
        LET report == downloads[Len(downloads)]
        IN  /\ report.kind = "report"
            /\ [k \in DOMAIN report.sheets |-> report.sheets[k].name]
                = <<"Afwijking achterstallig", "Afwijking concept", "Actiehouders">>
            /\ LaidOut(report.sheets[1], Len(audit.start.achterstalligRows), 8)
            /\ LaidOut(report.sheets[2], Len(audit.start.conceptRows), 5)
            /\ LaidOut(report.sheets[3], Len(audit.start.actiehouders), 1)

\* a report of two overdue records of one holder and no concept record has
\* been produced
C18_Witness ==
    /\ ReportDone
    /\ Len(audit.start.achterstalligRows) = 2
    /\ audit.start.conceptRows = <<>>
    /\ Len(downloads[Len(downloads)].sheets[1].table.rows) = 2
    /\ Len(downloads[Len(downloads)].sheets[2].table.rows) = 1
    /\ Len(downloads[Len(downloads)].sheets[3].table.rows) = 1

---------------------------------------------------------------------------
(* Repeated statistics passes: overview files are selected and 'Data       *)
(* ophalen' is clicked, in any order, runs still in flight included        *)

MaxTwiceRows == 1
TwiceEvents == 5

TwiceSweep == {LateRow, [LateRow EXCEPT !.planned = 8, !.done = 3]}

TwiceFiles ==
    {FileOf(FullHeaderId, rows) : rows \in SeqsUpTo(TwiceSweep, MaxTwiceRows)}

InitTwice == rev = "later" /\ \E f \in TwiceFiles : InitWith(f, TwiceEvents)

NextTwice ==
    \/ \E f \in TwiceFiles : SelectOverzicht(f)
    \/ NextRun

SpecTwice == InitTwice /\ [][NextTwice]_vars

---------------------------------------------------------------------------
(* C19 *)

---------------------------------------------------------------------------
(* Overlapping runs: with both files selected, 'Data ophalen' and          *)
(* 'PowerBI data' are clicked and other overview files selected while runs *)
(* are in flight                                                           *)

OverlapEvents == 4

\* two sheets that differ in their records and in their holders
OverlapFiles ==
    {FileOf(FullHeaderId, <<BaseRow>>),
     FileOf(FullHeaderId, <<[BaseRow EXCEPT !.code = 2, !.actiehouder = 2], ConceptRow>>)}

\* the database sheet has a title row only, so that a 'PowerBI data' run takes
\* the busy flag and ends without a download
InitOverlap ==
    \E f \in OverlapFiles : InitOf(f, FileOf(1, <<>>), <<>>, OverlapEvents)

NextOverlap ==
    \/ \E f \in OverlapFiles : SelectOverzicht(f)
    \/ NextRun
    \/ RunPowerBiExport
    \/ \E i \in DOMAIN runs : PowerBiExportReadDatabase(i)
    \/ \E i \in DOMAIN runs : PowerBiExportResume(i)

SpecOverlap == InitOverlap /\ [][NextOverlap]_vars

\* the three lists an overview pass over file at instant now publishes
ListsOf(file, now) ==
    LET res == OverviewPass(rev, file, now)
    IN  <<res.achterstallig, res.concept, res.actiehouders>>

---------------------------------------------------------------------------
(* C21 *)

\* C21: for every interleaving of overlapping ingestion runs, the published
\* Deviation Records, Concept Records and Action Holder Set always all come
\* from one and the same run: no reachable state shows the records of one run
\* next to the holder set of another, and a run never changes a record list
\* that an earlier run published (a run that publishes replaces the three
\* lists by its own, a run that fails leaves the three as they were).
C21_OneRun ==
    /\ \/ published = <<<<>>, <<>>, <<>>>>
       \/ \E f \in OverlapFiles, now \in Nows :
            OverviewPass(rev, f, now).error = "" /\ published = ListsOf(f, now)
    /\ audit.op = "overview" =>
        published = IF audit.error = "" THEN ListsOf(audit.file, audit.now)
                    ELSE <<audit.before.achterstalligRows, audit.before.conceptRows,
                           audit.before.actiehouders>>

\* a run that started when nothing was published has replaced the lists that
\* another run published meanwhile, a third run being still in flight
C21_Witness ==
    /\ audit.op = "overview"
    /\ audit.error = ""
    /\ audit.start.actiehouders = <<>>
    /\ audit.before.actiehouders # <<>>
    /\ audit.before.actiehouders # actiehouders
    /\ actiehouders # <<>>
    /\ runs # <<>>

---------------------------------------------------------------------------
(* The statistics pass on sheets whose filtered rows differ in lateness    *)
(* and in discipline                                                       *)

MaxDisciplineRows == 3

\* a filtered row that is two days late, one that is an hour late (one day,
\* rounded up), with each discipline cell; a row on time and a row without a
\* done date, with a discipline
DisciplineSweep ==
    {[LateRow EXCEPT !.planned = 14, !.done = d, !.discipline = k] :
        d \in {4, 5}, k \in DOMAIN DisciplineCells}
    \cup {[LateRow EXCEPT !.planned = 14, !.done = 3],
          [LateRow EXCEPT !.planned = 14, !.done = 1]}

DisciplineFiles ==
    {FileOf(FullHeaderId, rows) : rows \in SeqsUpTo(DisciplineSweep, MaxDisciplineRows)}

InitDiscipline == rev = "later" /\ \E f \in DisciplineFiles : InitWith(f, 1)

SpecDiscipline == InitDiscipline /\ [][NextRun]_vars

\* the rows of the file that are Late and carry the discipline label d
LateWith(file, d) ==
    {j \in DOMAIN file.rows :
        /\ InFilter(file, j)
        /\ IsDate(PlannedOf(file, j))
        /\ IsDate(DoneOf(file, j))
        /\ DoneOf(file, j).n > PlannedOf(file, j).n
        /\ FieldText(file, j, 12) = d}

\* ceil((doneDate - plannedDate) / 1 day) of a Late row
DaysLate(file, j) ==
    LET diff == DoneOf(file, j).n - PlannedOf(file, j).n
    IN  CHOOSE k \in 0..diff : k * HoursPerDay >= diff /\ (k - 1) * HoursPerDay < diff

RECURSIVE SumDaysLate(_, _)
SumDaysLate(file, rows) ==
    IF rows = {} THEN 0
    ELSE LET j == CHOOSE k \in rows : TRUE
         IN  Max(DaysLate(file, j), 0) + SumDaysLate(file, rows \ {j})

\* the labels that key the map m, each once
KeysOf(m) == {m[i].key : i \in DOMAIN m}
KeyedOnce(m) == \A i, k \in DOMAIN m : m[i].key = m[k].key => i = k

---------------------------------------------------------------------------
(* C22 *)

\* C22: per-discipline aggregation counts only Late records that carry a
\* non-empty discipline label: for each discipline the occurrence count is the
\* number of such records and the total is the sum of max(daysLate, 0) over
\* them with daysLate = ceil((doneDate - plannedDate) / 1 day); OnTime and
\* MissingDates records and Late records without a discipline contribute to no
\* discipline, and the presented list is in descending order of total/count.
C22_DisciplineAggregation ==
    StatsDone =>
        LET f == audit.file
            labels == {FieldText(f, j, 12) : j \in DOMAIN f.rows} \ {<<>>}
            keys == {d \in labels : LateWith(f, d) # {}}
            shown == powerBiDisciplineData(powerBiStats)
        IN  /\ KeysOf(powerBiStats.disciplineTotals) = keys
            /\ KeysOf(powerBiStats.disciplineCounts) = keys
            /\ KeyedOnce(powerBiStats.disciplineTotals)
            /\ KeyedOnce(powerBiStats.disciplineCounts)
            /\ \A d \in keys :
                /\ MapGetOr0(powerBiStats.disciplineCounts, d) = Cardinality(LateWith(f, d))
                /\ MapGetOr0(powerBiStats.disciplineTotals, d) = SumDaysLate(f, LateWith(f, d))
            /\ Len(shown) = Cardinality(keys)
            /\ \A i \in DOMAIN shown :
                /\ shown[i].discipline \in keys
                /\ shown[i].count = Cardinality(LateWith(f, shown[i].discipline))
                /\ shown[i].totalDays = SumDaysLate(f, LateWith(f, shown[i].discipline))
            /\ \A i, k \in DOMAIN shown :
                /\ i < k => shown[i].totalDays * shown[k].count
                                >= shown[k].totalDays * shown[i].count
                /\ i # k => shown[i].discipline # shown[k].discipline

\* one discipline met first with one record a day late, another with one
\* record two days late, next to a late record without a discipline: the
\* second discipline is presented first
C22_Witness ==
    /\ StatsDone
    /\ Len(powerBiStats.disciplineTotals) = 2
    /\ powerBiStats.overdueCount = 3
    /\ powerBiStats.disciplineTotals[1].value = 1
    /\ powerBiStats.disciplineTotals[2].value = 2
    /\ powerBiDisciplineData(powerBiStats)[1].discipline
        = powerBiStats.disciplineTotals[2].key

---------------------------------------------------------------------------
(* C23 *)

\* the doubles next to 100: the spacing of the doubles from 64 to 128 is 2^-46
HundredUp(k) ==
    IF k = 0 THEN DoubleOf(100)
    ELSE [DoubleOf(100) EXCEPT !.bits = BitsPlusOne(IF k = 1 THEN DoubleOf(100).bits
                                                    ELSE BitsPlusOne(DoubleOf(100).bits))]
HundredDown(k) ==
    IF k = 0 THEN DoubleOf(100)
    ELSE [DoubleOf(100) EXCEPT !.bits = BitsMinusOne(IF k = 1 THEN DoubleOf(100).bits
                                                     ELSE BitsMinusOne(DoubleOf(100).bits))]

\* the published percentages are those of the counters, or 0 without valid
\* dates, and lie between 0 and 100
PercentagesOfCounters ==
    LET valid   == powerBiStats.validDates
        overdue == powerBiStats.overdueCount
        late    == powerBiStats.overduePercent.value
        onTime  == powerBiStats.onTimePercent.value
    IN  /\ valid = 0 => (late = DoubleZero /\ onTime = DoubleZero)
        /\ valid > 0 =>
            /\ late = DoubleTimes(DoubleQuotient(overdue, valid), 100)
            /\ onTime = DoubleTimes(DoubleQuotient(valid - overdue, valid), 100)
            \* and go with the exact quotients of the same counters
            /\ powerBiStats.overduePercent.num = overdue * 100
            /\ powerBiStats.overduePercent.den = valid
            /\ powerBiStats.onTimePercent.num = (valid - overdue) * 100
            /\ powerBiStats.onTimePercent.den = valid
        /\ ~late.nan /\ ~onTime.nan
        /\ DoubleAtMost(DoubleZero, late) /\ DoubleAtMost(late, DoubleOf(100))
        /\ DoubleAtMost(DoubleZero, onTime) /\ DoubleAtMost(onTime, DoubleOf(100))

\* C23 as stated: the published overduePercent and onTimePercent are both 0
\* when validDates = 0 and otherwise equal overdueCount / validDates * 100 and
\* (validDates - overdueCount) / validDates * 100; so both always lie between 0
\* and 100 and they sum to 100 whenever validDates > 0.
C23_Original ==
    StatsDone =>
        /\ PercentagesOfCounters
        /\ powerBiStats.validDates > 0 =>
            DoublePlus(powerBiStats.overduePercent.value,
                       powerBiStats.onTimePercent.value) = DoubleOf(100)

\* C23, amended: the published overduePercent and onTimePercent are both 0
\* when validDates = 0 (no division by zero happens) and otherwise equal
\* overdueCount / validDates * 100 and (validDates - overdueCount) / validDates
\* * 100 as computed in double precision; so both always lie between 0 and 100,
\* and whenever validDates > 0 their sum is 100 or one of the two doubles next
\* to 100 on either side (it differs from 100 by less than 1e-13).
C23_Percentages ==
    StatsDone =>
        /\ PercentagesOfCounters
        /\ powerBiStats.validDates > 0 =>
            DoublePlus(powerBiStats.overduePercent.value,
                       powerBiStats.onTimePercent.value)
                \in {HundredDown(2), HundredDown(1), DoubleOf(100), HundredUp(1), HundredUp(2)}

\* 1 of 3 valid rows is overdue: the percentages are 33.33333333333333 and
\* 66.66666666666666, whose sum is 99.99999999999999, the double below 100
C23_Witness ==
    /\ StatsDone
    /\ powerBiStats.validDates = 3
    /\ powerBiStats.overdueCount = 1
    /\ DoublePlus(powerBiStats.overduePercent.value, powerBiStats.onTimePercent.value)
        = HundredDown(1)
    /\ DoubleAtMost(powerBiStats.overduePercent.value, powerBiStats.onTimePercent.value)

---------------------------------------------------------------------------
(* Reset: after 'Data ophalen' on a good sheet, panels are toggled, the    *)
(* station is set, a dashboard is uploaded, an email draft is made and the *)
(* reset button is clicked, in any order                                   *)

ResetEvents == 3

Dashboards == {NoFile, UnreadableDashboard, DashboardOf(<<>>), DashboardOf(T_Utrecht)}

InitReset == InitWith(GoodFile, ResetEvents)

NextReset ==
    \/ NextRun
    \/ Verversen
    \/ RunEmailDraft
    \/ \E panel \in Panels : TogglePanel(panel)
    \/ \E text \in Stations : SetStation(text)
    \/ \E f \in Dashboards : SelectDashboard(f)
    \/ \E i \in DOMAIN runs : DashboardResume(i)

SpecReset == InitReset /\ [][NextReset]_vars

\* the last step was a click on the reset button
ResetDone == audit.op = "reset"

\* the lists, the statistics and the ready flag are as they are initially, and
\* the files, the station label and the active panel are as before the click
ResetAndKept ==
    /\ achterstalligRows = <<>>
    /\ conceptRows = <<>>
    /\ actiehouders = <<>>
    /\ powerBiStats = Null
    /\ powerBiReady = FALSE
    /\ dashboardFile = audit.before.dashboardFile
    /\ overzichtFile = audit.before.overzichtFile
    /\ databaseFile = audit.before.databaseFile
    /\ station = audit.before.station
    /\ activePanel = audit.before.activePanel

---------------------------------------------------------------------------
(* C24 *)

\* C24 as stated: reset discards every published result: Deviation Records,
\* Concept Records, Action Holder Set, email draft, statistics, ready flag and
\* log all return to their initial empty values, and reset leaves the three
\* selected files, the station label and the active panel unchanged.
C24_Original ==
    ResetDone => (ResetAndKept /\ emailDraft = Null /\ logEntries = <<>>)

\* C24, amended: reset discards every published result and leaves the three
\* selected files, the station label and the active panel unchanged; the
\* email draft and the log return to their initial empty values too, except
\* in the later revision while the email panel is the active panel, where a
\* new draft for the current station label is made at once and the log holds
\* the one entry of that.
C24_Reset ==
    ResetDone =>
        /\ ResetAndKept
        /\ IF rev = "later" /\ activePanel = "email"
           THEN /\ emailDraft # Null
                /\ emailDraft.subject.station
                    = (IF trim(station) # <<>> THEN trim(station)
                       ELSE <<"S", "t", "a", "t", "i", "o", "n">>)
                /\ lastEmailStation = station
                /\ logEntries = <<[message |-> "Email concept gegenereerd.",
                                   type |-> "info"]>>
           ELSE emailDraft = Null /\ logEntries = <<>>

\* in the later revision, with records and statistics published and the email
\* panel active, the reset button has been clicked
C24_Witness ==
    /\ ResetDone
    /\ rev = "later"
    /\ activePanel = "email"
    /\ audit.before.published.achterstalligRows # <<>>
    /\ audit.before.published.powerBiStats # Null
    /\ audit.before.published.powerBiReady
    /\ audit.before.emailDraft # Null
    /\ Len(audit.before.logEntries) > 2
    /\ emailDraft # Null

---------------------------------------------------------------------------
(* C25 *)

\* C25: in the later revision, whenever the ready flag is true the published
\* statistics were computed from the overview file that is currently selected:
\* if the user selects another overview file while a run is in flight, the
\* completion of that run does not leave the old file's statistics published
\* as ready.
C25_ReadyOfSelectedFile ==
    (rev = "later" /\ powerBiReady) =>
        /\ overzichtFile.present
        /\ StatsPass(overzichtFile).error = ""
        /\ powerBiStats = StatsPass(overzichtFile).stats

---------------------------------------------------------------------------
(* C26 *)

\* C26: in the earlier revision the busy flag is empty only when no operation
\* is in flight: for every interleaving of 'Data ophalen' and 'PowerBI data'
\* runs, while any run has started and not yet finished the busy flag names a
\* running operation, so a button is never re-enabled for an operation that is
\* still running and no second run of the same operation can start.
C26_BusyWhileRunning ==
    rev = "earlier" =>
        /\ runs # <<>> => \E i \in DOMAIN runs : runs[i].op = busyAction
        /\ \A i, k \in DOMAIN runs : runs[i].op = runs[k].op => i = k

---------------------------------------------------------------------------
(* The busy flag of the later revision: runs of 'Data ophalen' on sheets   *)
(* that pass, that fail in the overview pass and that fail in the          *)
(* statistics pass, among file selections and resets; a pending            *)
(* readWorkbook returns in the end                                         *)

BusyEvents == 2

InitBusy == rev = "later" /\ \E f \in Files : InitWith(f, BusyEvents)

NextBusy ==
    \/ \E f \in Files : SelectOverzicht(f)
    \/ Verversen
    \/ NextRun

\* What a resumed run does to the list of runs in flight: it leaves the list
\* (the finally block has run) or it goes on to its statistics pass.
RunAdvances ==
    \E i \in DOMAIN runs :
        runs' \in {RemoveAt(runs, i),
                   [runs EXCEPT ![i].pc = "readPowerBi", ![i].applied = TRUE]}

\* readWorkbook is a promise on a FileReader: it settles, so a run that waits
\* for it is resumed.  The run list changes in no other way than by a click or
\* by a resumed run, so the fairness is stated on the run list.
SpecBusy ==
    /\ InitBusy
    /\ [][NextBusy]_vars
    /\ WF_runs(RunAdvances)

---------------------------------------------------------------------------
(* C27 *)

\* C27: in the later revision the busy flag equals 'data' from the start of a
\* 'Data ophalen' run until that run ends, including throughout the nested
\* statistics pass (which neither overwrites nor clears it), and the flag is
\* eventually empty again after every run, whether the overview pass or the
\* statistics pass succeeds or fails.
C27_BusyData ==
    /\ [](rev = "later" =>
            /\ busyAction = (IF runs # <<>> THEN "data" ELSE "")
            /\ Len(runs) <= 1
            /\ \A i \in DOMAIN runs : runs[i].op = "data")
    /\ (busyAction = "data") ~> (busyAction = "")

\* a run whose overview pass succeeded and whose statistics pass failed has
\* ended, and the flag is empty
C27_Witness ==
    /\ rev = "later"
    /\ audit.op = "stats"
    /\ audit.error # ""
    /\ audit.before.achterstalligRows # <<>>
    /\ busyAction = ""
    /\ runs = <<>>

---------------------------------------------------------------------------
(* C28 *)

\* C28: in the later revision the ready flag is true exactly when statistics
\* are published: after any sequence of runs, run failures, file selections,
\* drops and resets, powerBiReady = true if and only if powerBiStats is not
\* null.
C28_ReadyIffStats == rev = "later" => (powerBiReady <=> powerBiStats # Null)

\* a statistics pass has failed while statistics were published as ready, and
\* its catch block has taken both back
C28_Witness ==
    /\ rev = "later"
    /\ audit.op = "stats"
    /\ audit.error # ""
    /\ audit.before.powerBiReady
    /\ audit.before.powerBiStats # Null
    /\ ~powerBiReady
    /\ powerBiStats = Null

---------------------------------------------------------------------------
(* C29 *)

---------------------------------------------------------------------------
(* The log after many events: the handlers on a log that is nearly full    *)

\* the user events after the log has been filled
LogEvents == 3

\* the most entries the log holds: the 199 that slice(-199) keeps and the new one
LogLimit == 200

\* the log after n / 2 clicks on 'Data ophalen' with an overview file that is
\* no workbook: each run logs its start and the Error of readWorkbook
LogFill(n) ==
    [k \in 1..n |->
        IF k % 2 = 1 THEN [message |-> "Data ophalen gestart.", type |-> "info"]
        ELSE [message |-> ReadErrorMessage, type |-> "error"]]

InitLog ==
    /\ rev \in {"earlier", "later"}
    /\ overzichtFile = UnreadableFile
    /\ databaseFile = NoFile
    /\ station = <<>>
    /\ dashboardFile = NoFile
    /\ emailDraft = Null
    /\ lastEmailStation = <<>>
    /\ activePanel = "results"
    /\ busyAction = ""
    /\ logEntries \in {LogFill(n) : n \in {LogLimit - 2, LogLimit}}
    /\ achterstalligRows = <<>>
    /\ conceptRows = <<>>
    /\ actiehouders = <<>>
    /\ powerBiReady = FALSE
    /\ powerBiStats = Null
    /\ runs = <<>>
    /\ downloads = <<>>
    /\ events = LogEvents
    /\ passes = {}
    /\ audit = NoAudit

NextLog ==
    \/ \E f \in {UnreadableFile, GoodFile} : SelectOverzicht(f)
    \/ NextRun
    \/ Verversen
    \/ RunEmailDraft
    \/ \E panel \in Panels : TogglePanel(panel)
    \/ \E text \in Stations : SetStation(text)
    \/ DownloadDashboardExport
    \/ \E i \in DOMAIN runs : DashboardExportResume(i)

SpecLog == InitLog /\ [][NextLog]_vars

\* new is old with one entry added at its end, the oldest entry of a full old
\* being dropped and nothing else
AddedOne(old, new) ==
    /\ new # <<>>
    /\ SubSeq(new, 1, Len(new) - 1) = IF Len(old) = LogLimit THEN Tail(old) ELSE old

\* new is old with two entries added one after the other; between is the log
\* after the first: all of new but its last entry, behind the entry dropped
\* for the second if one was
AddedTwo(old, new) ==
    /\ new # <<>>
    /\ LET front == SubSeq(new, 1, Len(new) - 1)
       IN  \E between \in {front} \cup {<<old[k]>> \o front : k \in DOMAIN old} :
               AddedOne(old, between) /\ AddedOne(between, new)

\* what a step does to the log: nothing, one entry added, two entries added,
\* or the log emptied and then at most one entry added
LogStep ==
    \/ logEntries' = logEntries
    \/ AddedOne(logEntries, logEntries')
    \/ AddedTwo(logEntries, logEntries')
    \/ audit'.op = "reset" /\ Len(logEntries') <= 1

---------------------------------------------------------------------------
(* C30 *)

\* C30: after any sequence of logged events the log holds at most 200 entries,
\* and they are the most recently added entries in the order they were added:
\* every entry is added at the end, and adding an entry to a full log drops
\* exactly the oldest one.
C30_LogBounded == [](Len(logEntries) <= LogLimit) /\ [][LogStep]_vars

\* the log is full and its oldest entry is the second of a failed run: the
\* start of that run, once the oldest entry, has been dropped for 'Email
\* concept gegenereerd.'
C30_Witness ==
    /\ Len(logEntries) = LogLimit
    /\ logEntries[1].type = "error"
    /\ logEntries[LogLimit].message = "Email concept gegenereerd."
    /\ \A k \in 1..(LogLimit - 1) : logEntries[k] = LogFill(LogLimit)[k + 1]

=============================================================================
